---- MODULE Spec2Model ----
(***************************************************************************)
(* A model of the request dispatch and safety-gating pipeline of           *)
(* postgres-scout-mcp: the sanitizer (utils/sanitize), the sliding-window  *)
(* rate limiter, the pooled executeQuery primitive (utils/database) and    *)
(* the call-tool dispatcher (server/setup, tools/index).                   *)
(*                                                                         *)
(* SQL text is a sequence of lexical symbols.  A symbol is a whitespace    *)
(* character, a punctuation character, or a maximal run of word            *)
(* characters ([A-Za-z0-9_]) written as one string; no two word symbols    *)
(* are adjacent, so a word symbol is exactly one \w+ run of the text.      *)
(* Identifiers are sequences of single characters.                         *)
(***************************************************************************)
EXTENDS Integers, Sequences, FiniteSets, TLC

VARIABLES
    call,        \* sanitizer harness: the pure call under evaluation
    ret,         \* sanitizer harness: what the call returned or threw
    config,      \* ServerConfig (mode, queryTimeout, rate limit settings)
    now,         \* the latest value read from Date.now(), in milliseconds
    requests,    \* RateLimiter.requests
    accepted,    \* history: timestamps of every accepted checkLimit call
    lastCheck,   \* outcome of the most recent RateLimiter call
    inv,         \* per-invocation state of the call-tool request handler
                 \* (verdict: what sanitizeQuery said of the query)
    checkedOut,  \* pool: number of connections currently checked out
    executed,    \* database: the statements it has received
    mut,         \* the mutation tool call in progress (tools/mutations)
    rows,        \* database: the rows of the table that match its WHERE
    session,     \* pool: per connection, the invocation holding it and the
                 \* statement_timeout of its database session (empty where
                 \* the pool is followed by its counter only)
    live,        \* the live-monitoring tool call in progress
    probe,       \* the testConnection call in progress
    proc         \* the server process: signals received, pool.end(), exit

vars == <<call, ret, config, now, requests, accepted, lastCheck, inv,
          checkedOut, executed, mut, rows, session, live, probe, proc>>

(***************************************************************************)
(* Bounds                                                                  *)
(***************************************************************************)
MaxQueryLen == 4      \* longest enumerated query, in symbols
MaxIdentLen == 3      \* longest enumerated identifier, in characters
MaxLimit == 2         \* largest rateLimitMaxRequests considered
MaxTime == 1500       \* the clock stops advancing here
ClockStep == 500      \* granularity of the clock, in milliseconds
MaxInvocations == 2   \* tool invocations per run
MaxRows == 2          \* most rows the database returns for one statement
PoolMax == 1          \* pool size (PGMAXPOOLSIZE)
MaxTableRows == 2     \* most rows of the table that match a WHERE clause
MaxSamples == 2       \* polls followed of a monitoring loop that has no end
MaxSignals == 2       \* termination signals delivered in one run

(***************************************************************************)
(* Lexical symbols                                                         *)
(***************************************************************************)
Space == {" ", "\n"}
Punct == {";", "-", "/", "*", "(", ")", "'", ",", "=", ".", "$"}

IsSpace(s) == s \in Space
IsWordSym(s) == s \notin Space /\ s \notin Punct

\* String.prototype.toUpperCase on one symbol
ToUpperCase(s) ==
    CASE s = "select"  -> "SELECT"
      [] s = "Select"  -> "SELECT"
      [] s = "delete"  -> "DELETE"
      [] s = "drop"    -> "DROP"
      [] s = "with"    -> "WITH"
      [] s = "explain" -> "EXPLAIN"
      [] s = "union"   -> "UNION"
      [] s = "xp_"     -> "XP_"
      [] s = "true"    -> "TRUE"
      [] OTHER         -> s

\* String.prototype.trim
RECURSIVE TrimLeft(_)
TrimLeft(q) ==
    IF q = <<>> THEN <<>>
    ELSE IF IsSpace(Head(q)) THEN TrimLeft(Tail(q)) ELSE q

RECURSIVE TrimRight(_)
TrimRight(q) ==
    IF q = <<>> THEN <<>>
    ELSE IF IsSpace(q[Len(q)]) THEN TrimRight(SubSeq(q, 1, Len(q) - 1)) ELSE q

Trim(q) == TrimRight(TrimLeft(q))

\* trimmedQuery.split(/\s+/)[0]: the symbols before the first whitespace
RECURSIVE FirstToken(_)
FirstToken(q) ==
    IF q = <<>> THEN <<>>
    ELSE IF IsSpace(Head(q)) THEN <<>>
    ELSE <<Head(q)>> \o FirstToken(Tail(q))

UpperSeq(q) == [i \in 1..Len(q) |-> ToUpperCase(q[i])]

\* first index >= i that holds no whitespace (Len(q) + 1 when there is none)
RECURSIVE SkipSpaces(_, _)
SkipSpaces(q, i) ==
    IF i > Len(q) THEN Len(q) + 1
    ELSE IF IsSpace(q[i]) THEN SkipSpaces(q, i + 1) ELSE i

\* \b after the word symbol at index j
BoundaryAfter(q, j) == j = Len(q) \/ ~IsWordSym(q[j + 1])

(***************************************************************************)
(* sanitizeQuery                                                           *)
(***************************************************************************)
ALLOWED_READ_ONLY_OPERATIONS == {"SELECT", "EXPLAIN", "WITH"}
ALLOWED_READ_WRITE_OPERATIONS ==
    {"SELECT", "INSERT", "UPDATE", "DELETE", "CREATE", "ALTER", "DROP",
     "TRUNCATE", "VACUUM", "ANALYZE", "REINDEX", "EXPLAIN", "WITH"}

\* /;\s*KW\b/i
MatchesStacked(q, kw) ==
    \E i \in 1..Len(q) :
        /\ q[i] = ";"
        /\ LET j == SkipSpaces(q, i + 1)
           IN  /\ j <= Len(q)
               /\ ToUpperCase(q[j]) = kw
               /\ BoundaryAfter(q, j)

\* /;\s*DELETE\s+FROM\b/i
MatchesStackedDeleteFrom(q) ==
    \E i \in 1..Len(q) :
        /\ q[i] = ";"
        /\ LET j == SkipSpaces(q, i + 1)
               k == SkipSpaces(q, j + 1)
           IN  /\ j <= Len(q)
               /\ ToUpperCase(q[j]) = "DELETE"
               /\ k > j + 1
               /\ k <= Len(q)
               /\ ToUpperCase(q[k]) = "FROM"
               /\ BoundaryAfter(q, k)

\* two adjacent punctuation characters: /--/, /\/\*/, /\*\//
MatchesPair(q, a, b) ==
    \E i \in 1..(Len(q) - 1) : q[i] = a /\ q[i + 1] = b

\* /xp_/i
MatchesXp(q) == \E i \in 1..Len(q) : ToUpperCase(q[i]) \in {"XP_", "XP_CMDSHELL"}

\* /UNION\s+(ALL\s+)?SELECT/i
MatchesUnionSelect(q) ==
    \E i \in 1..Len(q) :
        /\ ToUpperCase(q[i]) = "UNION"
        /\ LET j == SkipSpaces(q, i + 1)
           IN  /\ j > i + 1
               /\ j <= Len(q)
               /\ \/ ToUpperCase(q[j]) = "SELECT"
                  \/ /\ ToUpperCase(q[j]) = "ALL"
                     /\ LET k == SkipSpaces(q, j + 1)
                        IN  /\ k > j + 1
                            /\ k <= Len(q)
                            /\ ToUpperCase(q[k]) = "SELECT"

StackedKeywords ==
    {"DROP", "TRUNCATE", "ALTER", "INSERT", "UPDATE", "CREATE", "GRANT",
     "REVOKE", "EXEC", "EXECUTE"}

DANGEROUS_PATTERNS(q) ==
    \/ \E kw \in StackedKeywords : MatchesStacked(q, kw)
    \/ MatchesStackedDeleteFrom(q)
    \/ MatchesPair(q, "-", "-")
    \/ MatchesPair(q, "/", "*")
    \/ MatchesPair(q, "*", "/")
    \/ MatchesXp(q)
    \/ MatchesUnionSelect(q)

\* trimmedQuery.indexOf(';'): 1-based here, 0 when absent
RECURSIVE IndexOfSemicolon(_, _)
IndexOfSemicolon(q, i) ==
    IF i > Len(q) THEN 0
    ELSE IF q[i] = ";" THEN i ELSE IndexOfSemicolon(q, i + 1)

\* variant: the read-write list is used whatever the mode
allowedOpsAnyMode(mode) == ALLOWED_READ_WRITE_OPERATIONS

allowedOps(mode) ==
    IF mode = "read-only" THEN ALLOWED_READ_ONLY_OPERATIONS
    ELSE ALLOWED_READ_WRITE_OPERATIONS

\* allowedOps.includes(operation)
OperationAllowed(trimmedQuery, mode) ==
    LET operation == UpperSeq(FirstToken(trimmedQuery))
    IN  Len(operation) = 1 /\ operation[1] \in allowedOps(mode)

\* trimmedQuery.lastIndexOf(';'): 1-based, 0 when absent
RECURSIVE LastIndexOfSemicolon(_, _)
LastIndexOfSemicolon(q, i) ==
    IF i < 1 THEN 0
    ELSE IF q[i] = ";" THEN i ELSE LastIndexOfSemicolon(q, i - 1)

\* variant: the position of the last semicolon is tested instead of the first
MultipleStatementsLastIndex(trimmedQuery) ==
    LET idx == LastIndexOfSemicolon(trimmedQuery, Len(trimmedQuery))
    IN  idx # 0 /\ idx # Len(trimmedQuery)

\* includes(';') && indexOf(';') !== length - 1
MultipleStatements(trimmedQuery) ==
    LET idx == IndexOfSemicolon(trimmedQuery, 1)
    IN  idx # 0 /\ idx # Len(trimmedQuery)

ErrEmpty     == "Query cannot be empty"
ErrOperation == "Operation not allowed in mode"
ErrDangerous == "Potentially dangerous query pattern detected"
ErrMultiple  == "Multiple statements not allowed"
Ok           == "ok"

\* the message sanitizeQuery throws, or Ok when it returns
sanitizeQuery(query, mode) ==
    LET trimmedQuery == Trim(query)
    IN  IF trimmedQuery = <<>> THEN ErrEmpty
        ELSE IF ~OperationAllowed(trimmedQuery, mode) THEN ErrOperation
        ELSE IF DANGEROUS_PATTERNS(trimmedQuery) THEN ErrDangerous
        ELSE IF MultipleStatements(trimmedQuery) THEN ErrMultiple
        ELSE Ok

(***************************************************************************)
(* sanitizeIdentifier                                                      *)
(***************************************************************************)
Letters == {"a", "Z", "b", "c", "i", "l", "p", "t", "u"}
Digits  == {"7"}

\* variant: the pattern without its end anchor, /^[a-zA-Z_][a-zA-Z0-9_]*/
IdentifierPatternUnanchored(identifier) ==
    /\ Len(identifier) >= 1
    /\ identifier[1] \in Letters \cup {"_"}

\* /^[a-zA-Z_][a-zA-Z0-9_]*$/ (no m flag: $ is the end of the input)
IdentifierPattern(identifier) ==
    /\ Len(identifier) >= 1
    /\ identifier[1] \in Letters \cup {"_"}
    /\ \A i \in 2..Len(identifier) :
           identifier[i] \in Letters \cup Digits \cup {"_"}

ErrIdentifier == "Invalid identifier"

sanitizeIdentifier(identifier) ==
    IF ~IdentifierPattern(identifier)
    THEN [status |-> "error", error |-> ErrIdentifier, value |-> <<>>]
    ELSE [status |-> "ok", error |-> "", value |-> identifier]

(***************************************************************************)
(* Inputs of the sanitizer harness                                         *)
(***************************************************************************)
RECURSIVE SeqsUpTo(_, _)
SeqsUpTo(S, n) ==
    IF n = 0 THEN {<<>>}
    ELSE LET shorter == SeqsUpTo(S, n - 1)
         IN  shorter \cup {Append(q, s) : q \in shorter, s \in S}

QuerySyms == {"SELECT", "delete", "WITH", " ", ";", "-", "1"}
IdentChars == {"a", "Z", "_", "7", " ", ";", "'", "\n"}

DeleteFromT == <<"DELETE", " ", "FROM", " ", "t">>
Select1 == <<"SELECT", " ", "1">>
Select1Semi == <<"SELECT", " ", "1", ";">>
Select1Select2 == <<"SELECT", " ", "1", ";", " ", "SELECT", " ", "2">>
WithDelete ==
    <<"WITH", " ", "d", " ", "AS", " ", "(", "DELETE", " ", "FROM", " ", "t",
      " ", "RETURNING", " ", "*", ")", " ", "SELECT", " ", "*", " ", "FROM",
      " ", "d">>
ExplainAnalyzeDelete ==
    <<"EXPLAIN", " ", "ANALYZE", " ", "DELETE", " ", "FROM", " ", "t">>
SelectUnion ==
    <<"SELECT", " ", "1", " ", "union", " ", "ALL", " ", "select", " ", "2">>
SelectDropStacked == <<"SELECT", " ", "1", ";", "\n", "drop", " ", "TABLE", " ", "t">>
SelectXp == <<"select", " ", "xp_">>
SelectComment == <<"SELECT", " ", "1", " ", "/", "*">>

QueryExamples ==
    {DeleteFromT, Select1, Select1Semi, Select1Select2, WithDelete,
     ExplainAnalyzeDelete, SelectUnion, SelectDropStacked, SelectXp,
     SelectComment}

Queries == SeqsUpTo(QuerySyms, MaxQueryLen) \cup QueryExamples
Identifiers == SeqsUpTo(IdentChars, MaxIdentLen)
Modes == {"read-only", "read-write"}

NoCall == [fn |-> "none", text |-> <<>>, mode |-> "read-only"]
Pending == [status |-> "pending", error |-> "", value |-> <<>>]

SanitizerCalls ==
    [fn : {"sanitizeQuery"}, text : Queries, mode : Modes]
    \cup [fn : {"sanitizeIdentifier"}, text : Identifiers, mode : {"read-only"}]

(***************************************************************************)
(* RateLimiter                                                             *)
(***************************************************************************)
\* JavaScript values: numbers, NaN, undefined, strings, booleans
Num(n) == [kind |-> "number", n |-> n, text |-> <<>>]
NaN == [kind |-> "NaN", n |-> 0, text |-> <<>>]
Undefined == [kind |-> "undefined", n |-> 0, text |-> <<>>]
Str(q) == [kind |-> "string", n |-> 0, text |-> q]
Bool(b) == [kind |-> "boolean", n |-> IF b THEN 1 ELSE 0, text |-> <<>>]

\* Math.ceil(x / 1000) for an integer x
CeilSeconds(x) == -((-x) \div 1000)

\* variant: the filtered array is never stored, nothing is evicted
FilterWindowKeepsAll(reqs, windowStart) == reqs

\* this.requests.filter(timestamp => timestamp > windowStart)
FilterWindow(reqs, windowStart) ==
    SelectSeq(reqs, LAMBDA timestamp : timestamp > windowStart)

\* Math.ceil((oldestRequest + this.windowMs - now) / 1000); requests[0] of an
\* empty array is undefined and the arithmetic on it gives NaN
ResetIn(reqs, windowMs, t) ==
    IF reqs = <<>> THEN NaN
    ELSE Num(CeilSeconds(reqs[1] + windowMs - t))

\* lastCheck: the most recent RateLimiter call.  owedBefore is the oldest
\* recorded timestamp of the latest rejection that no accepted call had yet
\* followed when this call was made, owed the same after this call
NoCheck ==
    [op |-> "none", threw |-> FALSE, resetIn |-> Num(0), oldest |-> Num(0),
     at |-> 0, before |-> <<>>, owedBefore |-> Undefined, owed |-> Undefined]

\* variant: the quota test is > where the code has >=
checkLimitOffByOne(reqs, cfg, t) ==
    IF ~cfg.enableRateLimit
    THEN [requests |-> reqs, threw |-> FALSE, resetIn |-> Num(0),
          oldest |-> Num(0)]
    ELSE LET windowStart == t - cfg.rateLimitWindowMs
             kept == SelectSeq(reqs, LAMBDA timestamp : timestamp > windowStart)
         IN  IF Len(kept) > cfg.rateLimitMaxRequests
             THEN [requests |-> kept, threw |-> TRUE,
                   resetIn |-> Num(CeilSeconds(kept[1] + cfg.rateLimitWindowMs - t)),
                   oldest |-> Num(kept[1])]
             ELSE [requests |-> Append(kept, t), threw |-> FALSE,
                   resetIn |-> Num(0), oldest |-> Num(0)]

\* variant: a rejected call is recorded like an accepted one
checkLimitRecordsRejected(reqs, cfg, t) ==
    IF ~cfg.enableRateLimit
    THEN [requests |-> reqs, threw |-> FALSE, resetIn |-> Num(0),
          oldest |-> Num(0)]
    ELSE LET windowStart == t - cfg.rateLimitWindowMs
             kept == FilterWindow(reqs, windowStart)
         IN  IF Len(kept) >= cfg.rateLimitMaxRequests
             THEN [requests |-> Append(kept, t), threw |-> TRUE,
                   resetIn |-> ResetIn(kept, cfg.rateLimitWindowMs, t),
                   oldest |-> IF kept = <<>> THEN NaN ELSE Num(kept[1])]
             ELSE [requests |-> Append(kept, t), threw |-> FALSE,
                   resetIn |-> Num(0), oldest |-> Num(0)]

\* RateLimiter.checkLimit at time t: the new requests array and the outcome
checkLimit(reqs, cfg, t) ==
    IF ~cfg.enableRateLimit
    THEN [requests |-> reqs, threw |-> FALSE, resetIn |-> Num(0),
          oldest |-> Num(0)]
    ELSE LET windowStart == t - cfg.rateLimitWindowMs
             kept == FilterWindow(reqs, windowStart)
         IN  IF Len(kept) >= cfg.rateLimitMaxRequests
             THEN [requests |-> kept, threw |-> TRUE,
                   resetIn |-> ResetIn(kept, cfg.rateLimitWindowMs, t),
                   oldest |-> IF kept = <<>> THEN NaN ELSE Num(kept[1])]
             ELSE [requests |-> Append(kept, t), threw |-> FALSE,
                   resetIn |-> Num(0), oldest |-> Num(0)]

\* RateLimiter.getStats().current
getStatsCurrent(reqs, cfg, t) ==
    Len(FilterWindow(reqs, t - cfg.rateLimitWindowMs))

\* history of accepted calls after a checkLimit outcome r at time t
Accepted(acc, r, cfg, t) ==
    IF cfg.enableRateLimit /\ ~r.threw THEN Append(acc, t) ELSE acc

CheckRecord(r, t, reqsBefore, prev) ==
    [op |-> "checkLimit", threw |-> r.threw, resetIn |-> r.resetIn,
     oldest |-> r.oldest, at |-> t, before |-> reqsBefore,
     owedBefore |-> prev.owed,
     owed |-> IF r.threw THEN r.oldest
              ELSE IF config.enableRateLimit THEN Undefined ELSE prev.owed]

(***************************************************************************)
(* Tool registry and argument schemas (zod)                                *)
(***************************************************************************)
Registry == {"executeQuery", "explainQuery"}

\* getTool(name) !== undefined
getTool(name) == name \in Registry

IsOptional(v, kind) == v.kind \in {"undefined", kind}

\* variant: the schemas are .passthrough(), undeclared keys reach the handler
SchemaParsePassthrough(name, args) ==
    IF name = "executeQuery"
    THEN [success |-> /\ args.query.kind = "string"
                      /\ IsOptional(args.timeout, "number")
                      /\ IsOptional(args.maxRows, "number"),
          data |-> args]
    ELSE [success |-> /\ args.query.kind = "string"
                      /\ IsOptional(args.analyze, "boolean"),
          data |-> [args EXCEPT !.analyze = IF args.analyze.kind = "undefined"
                                           THEN Bool(TRUE) ELSE args.analyze]]

\* ExecuteQuerySchema / ExplainQuerySchema .parse(args): z.object strips the
\* keys it does not declare and fills in the declared defaults
SchemaParse(name, args) ==
    IF name = "executeQuery"
    THEN [success |-> /\ args.query.kind = "string"
                      /\ IsOptional(args.timeout, "number")
                      /\ IsOptional(args.maxRows, "number"),
          data |-> [query |-> args.query, timeout |-> args.timeout,
                    maxRows |-> args.maxRows, analyze |-> Undefined,
                    extra |-> FALSE]]
    ELSE [success |-> /\ args.query.kind = "string"
                      /\ IsOptional(args.analyze, "boolean"),
          data |-> [query |-> args.query, timeout |-> Undefined,
                    maxRows |-> Undefined,
                    analyze |-> IF args.analyze.kind = "undefined"
                                THEN Bool(TRUE) ELSE args.analyze,
                    extra |-> FALSE]]

\* a || b on an optional number
OrElse(a, b) ==
    IF a.kind \in {"undefined", "NaN"} \/ (a.kind = "number" /\ a.n = 0)
    THEN b ELSE a

\* !Number.isFinite(timeout) || timeout < 0
InvalidTimeout(timeout) == timeout.kind # "number" \/ timeout.n < 0

\* explainQueryTool: `EXPLAIN (${explainOptions.join(', ')}) ${query}`
ExplainText(query, analyze, verbose, buffers) ==
    <<"EXPLAIN", " ", "(", "FORMAT", " ", "JSON">>
    \o (IF analyze THEN <<",", " ", "ANALYZE">> ELSE <<>>)
    \o (IF verbose THEN <<",", " ", "VERBOSE">> ELSE <<>>)
    \o (IF buffers THEN <<",", " ", "BUFFERS">> ELSE <<>>)
    \o <<")", " ">> \o query

\* the SQL text the handler of a tool passes to executeQuery
HandlerQuery(name, data) ==
    IF name = "executeQuery" THEN data.query.text
    ELSE ExplainText(data.query.text, data.analyze.n = 1, FALSE, TRUE)

\* the options the handler of a tool passes to executeQuery
HandlerTimeout(name, data) ==
    IF name = "executeQuery" THEN data.timeout ELSE Undefined

HandlerMaxRows(name, data) ==
    IF name = "executeQuery" THEN data.maxRows ELSE Undefined

(***************************************************************************)
(* The call-tool request handler, executeTool and executeQuery             *)
(***************************************************************************)
ErrRateLimit  == "Rate limit exceeded"
ErrNotFound   == "Tool not found"
ErrValidation == "ZodError"
ErrTimeout    == "Invalid timeout value"
ErrConnect    == "timeout exceeded when trying to connect"
ErrDatabase   == "database error"

NoArgs ==
    [query |-> Undefined, timeout |-> Undefined, maxRows |-> Undefined,
     analyze |-> Undefined, extra |-> FALSE]

Idle ==
    [pc |-> "idle", name |-> "", rawArgs |-> NoArgs, rateThrew |-> FALSE,
     query |-> <<>>, verdict |-> "", timeout |-> Undefined,
     maxRows |-> Undefined, client |-> FALSE, args |-> NoArgs,
     rowCount |-> 0, handlerRuns |-> 0, trace |-> <<>>, responses |-> <<>>,
     escaped |-> FALSE, logged |-> ""]

ErrorEnvelope(msg, name) ==
    [isError |-> TRUE, text |-> [error |-> msg, tool |-> name, result |-> ""]]
ResultEnvelope(result) ==
    [isError |-> FALSE, text |-> [error |-> "", tool |-> "", result |-> result]]

\* variant: the handler has no catch block, the exception leaves it
HandlerCatchRethrows(rec, msg) ==
    [rec EXCEPT !.pc = "done", !.escaped = TRUE]

\* setup.ts: the handler's catch block
HandlerCatch(rec, msg) ==
    [rec EXCEPT !.pc = "done",
                !.trace = Append(@, "error:mcp"),
                !.logged = msg,
                !.responses = Append(@, ErrorEnvelope(msg, rec.name))]

\* setup.ts: the handler's return after executeTool resolved
HandlerReturn(rec, result) ==
    [rec EXCEPT !.pc = "done",
                !.responses = Append(@, ResultEnvelope(result))]

\* variant: a failure of the tool handler is answered without a log entry
ToolCatchUnlogged(rec, msg) ==
    [rec EXCEPT !.pc = "done",
                !.responses = Append(@, ErrorEnvelope(msg, rec.name))]

\* tools/index.ts: executeTool's catch block around tool.handler
ToolCatch(rec, msg) ==
    HandlerCatch([rec EXCEPT !.trace = Append(@, "error:tool")], msg)

\* utils/database.ts: executeQuery's catch and finally blocks
QueryCatch(rec, msg) ==
    ToolCatch([rec EXCEPT !.trace = Append(@, "error:query")
                                    \o (IF rec.client THEN <<"release">> ELSE <<>>),
                          !.client = FALSE], msg)

\* variant: executeQuery without the sanitizeQuery call
executeQueryStartUnsanitized(rec, query, timeoutOption, maxRowsOption) ==
    [rec EXCEPT !.pc = "connecting",
                !.query = query,
                !.verdict = sanitizeQuery(query, config.mode),
                !.timeout = OrElse(timeoutOption, Num(config.queryTimeout)),
                !.maxRows = OrElse(maxRowsOption, Num(config.maxResultRows)),
                !.trace = Append(@, "debug:query")]

\* executeQuery up to `await pool.connect()`
executeQueryStart(rec, query, timeoutOption, maxRowsOption) ==
    LET verdict == sanitizeQuery(query, config.mode)
        called == [rec EXCEPT !.query = query, !.verdict = verdict]
    IN  IF verdict # Ok
        THEN ToolCatch(called, verdict)
        ELSE [called EXCEPT
                 !.pc = "connecting",
                 !.timeout = OrElse(timeoutOption, Num(config.queryTimeout)),
                 !.maxRows = OrElse(maxRowsOption, Num(config.maxResultRows)),
                 !.trace = Append(@, "debug:query")]

\* variant: executeTool hands the raw arguments to the handler unparsed
executeToolUnvalidated(rec, name, args) ==
    IF ~getTool(name) THEN HandlerCatch(rec, ErrNotFound)
    ELSE executeQueryStart(
             [rec EXCEPT !.handlerRuns = @ + 1, !.args = args,
                         !.trace = @ \o <<"info:tool", "handler">>],
             HandlerQuery(name, args),
             HandlerTimeout(name, args),
             HandlerMaxRows(name, args))

\* executeTool up to the first suspension of the handler
executeTool(rec, name, args) ==
    IF ~getTool(name) THEN HandlerCatch(rec, ErrNotFound)
    ELSE LET parsed == SchemaParse(name, args)
         IN  IF ~parsed.success THEN HandlerCatch(rec, ErrValidation)
             ELSE executeQueryStart(
                      [rec EXCEPT !.handlerRuns = @ + 1,
                                  !.args = parsed.data,
                                  !.trace = @ \o <<"info:tool", "handler">>],
                      HandlerQuery(name, parsed.data),
                      HandlerTimeout(name, parsed.data),
                      HandlerMaxRows(name, parsed.data))

(***************************************************************************)
(* Configurations and inputs                                               *)
(***************************************************************************)
Windows == {1000, 1500}
DefaultQueryTimeout == 30000
DefaultMaxResultRows == 10000

Configs ==
    [mode : Modes, enableRateLimit : {TRUE}, rateLimitMaxRequests : 0..MaxLimit,
     rateLimitWindowMs : Windows, queryTimeout : {DefaultQueryTimeout},
     maxResultRows : {DefaultMaxResultRows}]
    \cup
    [mode : Modes, enableRateLimit : {FALSE}, rateLimitMaxRequests : {MaxLimit},
     rateLimitWindowMs : {1000}, queryTimeout : {DefaultQueryTimeout},
     maxResultRows : {DefaultMaxResultRows}]

\* the server runs with the limiter off (the default) or on with a quota of one
DispatchConfigs ==
    {c \in Configs : c.enableRateLimit =>
                        c.rateLimitMaxRequests = 1 /\ c.rateLimitWindowMs = 1000}

ToolNames == Registry \cup {"noSuchTool"}

DispatchQueries ==
    {Select1, DeleteFromT, WithDelete, Select1Select2, SelectComment, <<>>}

ExecuteQueryArgs ==
    {[NoArgs EXCEPT !.query = Str(q)] : q \in DispatchQueries}
    \cup {[NoArgs EXCEPT !.query = Str(Select1), !.timeout = Num(-1)],
          NoArgs}

ExplainQueryArgs ==
    {[NoArgs EXCEPT !.query = Str(DeleteFromT)],
     [NoArgs EXCEPT !.query = Str(Select1), !.analyze = Bool(FALSE)]}

RawArgs(name) ==
    IF name = "executeQuery" THEN ExecuteQueryArgs
    ELSE IF name = "explainQuery" THEN ExplainQueryArgs
    ELSE {[NoArgs EXCEPT !.query = Str(Select1)]}

\* raw argument objects of the query tools: options present, absent, zero,
\* negative and mistyped, a missing required key, an undeclared key
ExecuteQueryCases ==
    {[NoArgs EXCEPT !.query = Str(Select1)],
     [NoArgs EXCEPT !.query = Str(Select1), !.timeout = Num(0)],
     [NoArgs EXCEPT !.query = Str(Select1), !.timeout = Num(-1)],
     [NoArgs EXCEPT !.query = Str(Select1), !.timeout = Num(5)],
     [NoArgs EXCEPT !.query = Str(Select1), !.maxRows = Num(0)],
     [NoArgs EXCEPT !.query = Str(Select1), !.maxRows = Num(1)],
     [NoArgs EXCEPT !.query = Str(Select1), !.extra = TRUE],
     [NoArgs EXCEPT !.query = Str(Select1), !.maxRows = Str(<<"1">>)],
     NoArgs}

ExplainQueryCases ==
    {[NoArgs EXCEPT !.query = Str(Select1)],
     [NoArgs EXCEPT !.query = Str(Select1), !.analyze = Bool(FALSE),
                    !.extra = TRUE]}

ArgumentCases(name) ==
    IF name = "executeQuery" THEN ExecuteQueryCases ELSE ExplainQueryCases

DispatchRequests ==
    UNION {{<<name, args>> : args \in RawArgs(name)} : name \in ToolNames}

ArgumentRequests ==
    UNION {{<<name, args>> : args \in ArgumentCases(name)} : name \in Registry}

\* executeQuery calls that differ in their timeout option only
SessionTimeouts == {Undefined, Num(5), Num(7)}
SessionRequests ==
    {<<"executeQuery", [NoArgs EXCEPT !.query = Str(Select1), !.timeout = t]>> :
        t \in SessionTimeouts}

Invocations == 1..MaxInvocations

(***************************************************************************)
(* Actions                                                                 *)
(***************************************************************************)
sanitizerVars == <<call, ret>>
limiterVars == <<requests, accepted, lastCheck>>
dispatchVars == <<inv, checkedOut, executed>>
mutationVars == <<mut, rows>>
monitoringVars == <<live>>
lifecycleVars == <<probe, proc>>

\* the pool accepts pool.connect() until pool.end() is called
PoolOpen == ~proc.ending

\* the harness evaluates sanitizeQuery on its input
SanitizeQueryCall ==
    /\ call.fn = "sanitizeQuery"
    /\ ret.status = "pending"
    /\ LET verdict == sanitizeQuery(call.text, call.mode)
       IN  ret' = IF verdict = Ok
                  THEN [status |-> "ok", error |-> "", value |-> <<>>]
                  ELSE [status |-> "error", error |-> verdict, value |-> <<>>]
    /\ UNCHANGED <<lifecycleVars, monitoringVars, session, mutationVars, call, config, now, limiterVars, dispatchVars>>

\* the harness evaluates sanitizeIdentifier on its input
SanitizeIdentifierCall ==
    /\ call.fn = "sanitizeIdentifier"
    /\ ret.status = "pending"
    /\ ret' = sanitizeIdentifier(call.text)
    /\ UNCHANGED <<lifecycleVars, monitoringVars, session, mutationVars, call, config, now, limiterVars, dispatchVars>>

\* the values Date.now() can return at the next read of the clock
ClockReads == {t \in now..MaxTime : (t - now) % ClockStep = 0}

\* the clock readings of one checkLimit call: none when the limiter is off
CheckLimitReads == IF config.enableRateLimit THEN ClockReads ELSE {now}

\* a direct call of RateLimiter.checkLimit
CheckLimitCall ==
    /\ \E t \in CheckLimitReads :
         LET r == checkLimit(requests, config, t)
         IN  /\ now' = t
             /\ requests' = r.requests
             /\ accepted' = Accepted(accepted, r, config, t)
             /\ lastCheck' = CheckRecord(r, t, requests, lastCheck)
    /\ UNCHANGED <<lifecycleVars, monitoringVars, session, mutationVars, sanitizerVars, config, dispatchVars>>

\* RateLimiter.reset (the history restarts with it)
ResetCall ==
    /\ requests' = <<>>
    /\ accepted' = <<>>
    /\ lastCheck' = [NoCheck EXCEPT !.op = "reset", !.at = now,
                                    !.before = requests]
    /\ UNCHANGED <<lifecycleVars, monitoringVars, session, mutationVars, sanitizerVars, config, now, dispatchVars>>

\* RateLimiter.getStats
GetStatsCall ==
    /\ \E t \in ClockReads :
         /\ now' = t
         /\ lastCheck' = [NoCheck EXCEPT !.op = "getStats", !.at = t,
                                         !.before = requests,
                                         !.owedBefore = lastCheck.owed,
                                         !.owed = lastCheck.owed,
                                         !.resetIn = Num(getStatsCurrent(requests, config, t))]
    /\ UNCHANGED <<lifecycleVars, monitoringVars, session, mutationVars, sanitizerVars, config, requests, accepted, dispatchVars>>

\* variant: the limiter is consulted only once the name resolved and the
\* arguments passed the schema
handlerRateCheckAfterValidation(name, args, reqs, t) ==
    IF getTool(name) /\ SchemaParse(name, args).success
    THEN checkLimit(reqs, config, t)
    ELSE [requests |-> reqs, threw |-> FALSE, resetIn |-> Num(0),
          oldest |-> Num(0)]

\* variant: the check is not serialized; it compares against the list as it
\* was before the check of an invocation still in flight appended to it
handlerRateCheckUnserialized(name, args, reqs, t) ==
    LET overlapping == \E j \in Invocations : inv[j].pc \notin {"idle", "done"}
        seen == IF overlapping /\ reqs # <<>>
                THEN SubSeq(reqs, 1, Len(reqs) - 1) ELSE reqs
        r == checkLimit(seen, config, t)
    IN  IF r.threw \/ ~config.enableRateLimit THEN r
        ELSE [r EXCEPT !.requests =
                 Append(FilterWindow(reqs, t - config.rateLimitWindowMs), t)]

\* setup.ts: rateLimiter.checkLimit() is the first statement of the handler's
\* try block, ahead of executeTool and so of the lookup and the schema
handlerRateCheck(name, args, reqs, t) == checkLimit(reqs, config, t)

\* a call-tool request arrives: the handler runs up to its first suspension;
\* the request is one of Requests, pairs of a tool name and raw arguments
ReceiveFrom(i, Requests) ==
    /\ inv[i].pc = "idle"
    /\ \A j \in Invocations : j < i => inv[j].pc # "idle"
    /\ \E request \in Requests :
         LET name == request[1]
             args == request[2]
         IN
           \E t \in CheckLimitReads :
             LET r == handlerRateCheck(name, args, requests, t)
                 rec == [inv[i] EXCEPT !.name = name, !.rawArgs = args,
                                       !.rateThrew = r.threw,
                                       !.trace = <<"info:mcp", "checkLimit">>]
             IN  /\ now' = t
                 /\ requests' = r.requests
                 /\ accepted' = Accepted(accepted, r, config, t)
                 /\ lastCheck' = CheckRecord(r, t, requests, lastCheck)
                 /\ inv' = [inv EXCEPT ![i] =
                               IF r.threw THEN HandlerCatch(rec, ErrRateLimit)
                               ELSE executeTool(rec, name, args)]
    /\ UNCHANGED <<lifecycleVars, monitoringVars, session, mutationVars, sanitizerVars, config, checkedOut, executed>>

\* a call-tool request with any tool name and the dispatch arguments
Receive(i) == ReceiveFrom(i, DispatchRequests)

\* an executeQuery request with one of the session timeouts
ReceiveSession(i) == ReceiveFrom(i, SessionRequests)

\* a call-tool request for a query tool with the argument cases
ReceiveArguments(i) == ReceiveFrom(i, ArgumentRequests)

SetStatement(i, timeout) ==
    [by |-> i, kind |-> "SET statement_timeout", text |-> <<>>, timeout |-> timeout]
\* a statement of invocation i, run under the statement_timeout of its session
QueryStatement(i, text, timeout) ==
    [by |-> i, kind |-> "query", text |-> text, timeout |-> timeout]

\* the pool's connections; a connection's session keeps the last
\* statement_timeout set on it (Undefined: the server's default)
Connections == 1..PoolMax
NoSession == [holder |-> 0, timeout |-> Undefined]
Untracked == [c \in {} |-> NoSession]
FreeConnections ==
    IF DOMAIN session = {} THEN {0}
    ELSE {c \in Connections : session[c].holder = 0}
ClientOf(i) ==
    IF \E c \in DOMAIN session : session[c].holder = i
    THEN CHOOSE c \in DOMAIN session : session[c].holder = i
    ELSE 0

\* pool.connect() resolved with connection c for invocation i
sessionAcquire(sess, c, i) ==
    IF c \in DOMAIN sess THEN [sess EXCEPT ![c].holder = i] ELSE sess

\* variant: the timeout is set only on a connection that has none yet
sessionAfterSetOnce(sess, c, timeout) ==
    IF c \in DOMAIN sess /\ sess[c].timeout = Undefined
    THEN [sess EXCEPT ![c].timeout = Num(timeout)] ELSE sess

\* client.query(`SET statement_timeout = ${Math.floor(timeout)}`) succeeded
\* on connection c
sessionAfterSet(sess, c, timeout) ==
    IF c \in DOMAIN sess THEN [sess EXCEPT ![c].timeout = Num(timeout)] ELSE sess

\* the statement_timeout a statement sent on connection c runs under
sessionTimeout(sess, c) == IF c \in DOMAIN sess THEN sess[c].timeout.n ELSE 0

\* client.release() by invocation i: its connection returns to the pool with
\* its session as it is
sessionRelease(sess, i) ==
    [c \in DOMAIN sess |->
        IF sess[c].holder = i THEN [sess[c] EXCEPT !.holder = 0] ELSE sess[c]]

\* variant: executeQuery without its finally block
clientReleaseMissing(n, client) == n

\* finally { if (client) client.release() }: the connections checked out
\* once the block has run, n being the number before it
clientRelease(n, client) == IF client THEN n - 1 ELSE n

\* pool.connect() resolves; executeQuery checks the timeout and sends SET
Connect(i) ==
    /\ inv[i].pc = "connecting"
    /\ PoolOpen
    /\ checkedOut < PoolMax
    /\ \E c \in FreeConnections :
         LET rec == [inv[i] EXCEPT !.client = TRUE, !.trace = Append(@, "connect")]
             held == sessionAcquire(session, c, i)
         IN  IF InvalidTimeout(rec.timeout)
             THEN /\ inv' = [inv EXCEPT ![i] = QueryCatch(rec, ErrTimeout)]
                  /\ checkedOut' = clientRelease(checkedOut + 1, rec.client)
                  /\ session' = sessionRelease(held, i)
                  /\ UNCHANGED executed
             ELSE /\ inv' = [inv EXCEPT ![i] = [rec EXCEPT !.pc = "setting",
                                                           !.trace = Append(@, "SET")]]
                  /\ checkedOut' = checkedOut + 1
                  /\ session' = held
                  /\ executed' = executed \cup {SetStatement(i, rec.timeout.n)}
    /\ UNCHANGED <<lifecycleVars, monitoringVars, mutationVars, sanitizerVars, config, now, limiterVars>>

\* pool.connect() rejects (connectionTimeoutMillis, server unreachable)
ConnectFail(i) ==
    /\ inv[i].pc = "connecting"
    /\ inv' = [inv EXCEPT ![i] = QueryCatch(inv[i], ErrConnect)]
    /\ checkedOut' = clientRelease(checkedOut, inv[i].client)
    /\ UNCHANGED <<lifecycleVars, monitoringVars, session, mutationVars, sanitizerVars, config, now, limiterVars, executed>>

\* SET statement_timeout succeeded; the user's statement is sent
SetDone(i) ==
    /\ inv[i].pc = "setting"
    /\ inv' = [inv EXCEPT ![i].pc = "querying",
                          ![i].trace = Append(@, "query")]
    /\ session' = sessionAfterSet(session, ClientOf(i), inv[i].timeout.n)
    /\ executed' = executed \cup
           {QueryStatement(i, inv[i].query, sessionTimeout(session', ClientOf(i)))}
    /\ UNCHANGED <<lifecycleVars, monitoringVars, mutationVars, sanitizerVars, config, now, limiterVars, checkedOut>>

\* SET statement_timeout failed
SetFail(i) ==
    /\ inv[i].pc = "setting"
    /\ inv' = [inv EXCEPT ![i] = QueryCatch(inv[i], ErrDatabase)]
    /\ checkedOut' = clientRelease(checkedOut, inv[i].client)
    /\ session' = sessionRelease(session, i)
    /\ UNCHANGED <<lifecycleVars, monitoringVars, mutationVars, sanitizerVars, config, now, limiterVars, executed>>

\* result.rows after the row cap of executeQuery
CapRows(rowCount, maxRows) ==
    IF rowCount # 0 /\ rowCount > maxRows.n THEN maxRows.n ELSE rowCount

\* the statement returned rowCount rows; executeQuery caps, releases, returns
QueryDone(i) ==
    /\ inv[i].pc = "querying"
    /\ \E rowCount \in 0..MaxRows :
         LET capped == CapRows(rowCount, inv[i].maxRows)
             rec == [inv[i] EXCEPT
                       !.client = FALSE,
                       !.rowCount = rowCount,
                       !.trace = @ \o (IF capped # rowCount THEN <<"warn:query">> ELSE <<>>)
                                   \o <<"info:query", "release", "info:tool">>]
         IN  inv' = [inv EXCEPT ![i] = HandlerReturn(rec, capped)]
    /\ checkedOut' = clientRelease(checkedOut, inv[i].client)
    /\ session' = sessionRelease(session, i)
    /\ UNCHANGED <<lifecycleVars, monitoringVars, mutationVars, sanitizerVars, config, now, limiterVars, executed>>

\* the statement failed at the database (error, statement timeout)
QueryFail(i) ==
    /\ inv[i].pc = "querying"
    /\ inv' = [inv EXCEPT ![i] = QueryCatch(inv[i], ErrDatabase)]
    /\ checkedOut' = clientRelease(checkedOut, inv[i].client)
    /\ session' = sessionRelease(session, i)
    /\ UNCHANGED <<lifecycleVars, monitoringVars, mutationVars, sanitizerVars, config, now, limiterVars, executed>>

(***************************************************************************)
(* Mutation tools: previewUpdate, previewDelete, safeUpdate, safeDelete    *)
(***************************************************************************)
Obj(cols) == [kind |-> "object", n |-> 0, text |-> cols]

\* String.prototype.toLowerCase on one symbol
ToLowerCase(s) ==
    CASE s = "TRUE" -> "true"
      [] s = "True" -> "true"
      [] OTHER      -> s

LowerSeq(q) == [i \in 1..Len(q) |-> ToLowerCase(q[i])]

\* /;\s*\w/i
MatchesSemicolonWord(q) ==
    \E i \in 1..Len(q) :
        /\ q[i] = ";"
        /\ LET j == SkipSpaces(q, i + 1)
           IN  j <= Len(q) /\ IsWordSym(q[j])

\* /INTO\s+(OUT|DUMP)FILE/i
MatchesIntoFile(q) ==
    \E i \in 1..Len(q) :
        /\ ToUpperCase(q[i]) = "INTO"
        /\ LET j == SkipSpaces(q, i + 1)
           IN  /\ j > i + 1
               /\ j <= Len(q)
               /\ ToUpperCase(q[j]) \in {"OUTFILE", "DUMPFILE"}

\* /LOAD_FILE\s*\(/i
MatchesLoadFile(q) ==
    \E i \in 1..Len(q) :
        /\ ToUpperCase(q[i]) = "LOAD_FILE"
        /\ LET j == SkipSpaces(q, i + 1)
           IN  j <= Len(q) /\ q[j] = "("

WHERE_DANGEROUS_PATTERNS(q) ==
    \/ MatchesSemicolonWord(q)
    \/ MatchesPair(q, "-", "-")
    \/ MatchesPair(q, "/", "*")
    \/ MatchesPair(q, "*", "/")
    \/ MatchesUnionSelect(q)
    \/ MatchesIntoFile(q)
    \/ MatchesLoadFile(q)

\* (trimmed.match(/c/g) || []).length
CountOf(q, c) == Cardinality({i \in 1..Len(q) : q[i] = c})

ErrWhereEmpty     == "WHERE clause cannot be empty"
ErrWhereDangerous == "Potentially dangerous pattern detected in WHERE clause"
ErrWhereParens    == "Unbalanced parentheses in WHERE clause"
ErrWhereQuotes    == "Unbalanced quotes in WHERE clause"

\* the message validateUserWhereClause throws, or Ok when it returns
validateUserWhereClause(where) ==
    LET trimmed == Trim(where)
    IN  IF trimmed = <<>> THEN ErrWhereEmpty
        ELSE IF WHERE_DANGEROUS_PATTERNS(trimmed) THEN ErrWhereDangerous
        ELSE IF CountOf(trimmed, "(") # CountOf(trimmed, ")") THEN ErrWhereParens
        ELSE IF CountOf(trimmed, "'") % 2 # 0 THEN ErrWhereQuotes
        ELSE Ok

AllRowsWheres == {<<>>, <<"1", "=", "1">>, <<"true">>}

\* variant: the WHERE text is compared without trim().toLowerCase()
validateWhereClauseVerbatim(where, allowEmpty) ==
    IF where \in AllRowsWheres
    THEN [valid |-> allowEmpty, warning |-> TRUE]
    ELSE [valid |-> TRUE, warning |-> FALSE]

\* mutations.ts validateWhereClause
validateWhereClause(where, allowEmpty) ==
    LET trimmed == LowerSeq(Trim(where))
    IN  IF trimmed \in AllRowsWheres
        THEN [valid |-> allowEmpty, warning |-> TRUE]
        ELSE [valid |-> TRUE, warning |-> FALSE]

MutationTools == {"previewUpdate", "previewDelete", "safeUpdate", "safeDelete"}
PreviewTools == {"previewUpdate", "previewDelete"}

DefaultSchema == <<"p", "u", "b", "l", "i", "c">>
DefaultLimit == 5
DefaultMutationMaxRows == 1000

NoMutArgs ==
    [table |-> Undefined, schema |-> Undefined, where |-> Undefined,
     set |-> Undefined, dryRun |-> Undefined, maxRows |-> Undefined,
     allowEmptyWhere |-> Undefined, allowRawSet |-> Undefined,
     limit |-> Undefined, condition |-> Undefined,
     timestampColumn |-> Undefined, timeWindow |-> Undefined,
     orderBy |-> Undefined]

\* v ?? d for a key with .optional().default(d)
WithDefault(v, d) == IF v.kind = "undefined" THEN d ELSE v

\* PreviewUpdateSchema, PreviewDeleteSchema, SafeUpdateSchema and
\* SafeDeleteSchema .parse(args): undeclared keys (allowRawSet among them)
\* are stripped, declared defaults filled in
MutationSchemaParse(tool, args) ==
    [success |->
        /\ args.table.kind = "string"
        /\ IsOptional(args.schema, "string")
        /\ args.where.kind = "string"
        /\ tool \in PreviewTools => IsOptional(args.limit, "number")
        /\ tool \notin PreviewTools =>
               /\ IsOptional(args.dryRun, "boolean")
               /\ IsOptional(args.maxRows, "number")
               /\ IsOptional(args.allowEmptyWhere, "boolean")
        /\ tool = "safeUpdate" => args.set.kind \in {"string", "object"},
     data |->
        IF tool \in PreviewTools
        THEN [NoMutArgs EXCEPT
                 !.table = args.table,
                 !.schema = WithDefault(args.schema, Str(DefaultSchema)),
                 !.where = args.where,
                 !.limit = WithDefault(args.limit, Num(DefaultLimit))]
        ELSE [NoMutArgs EXCEPT
                 !.table = args.table,
                 !.schema = WithDefault(args.schema, Str(DefaultSchema)),
                 !.where = args.where,
                 !.set = IF tool = "safeUpdate" THEN args.set ELSE Undefined,
                 !.dryRun = WithDefault(args.dryRun, Bool(FALSE)),
                 !.maxRows = WithDefault(args.maxRows, Num(DefaultMutationMaxRows)),
                 !.allowEmptyWhere = WithDefault(args.allowEmptyWhere, Bool(FALSE))]]

\* a sanitized identifier as one word of SQL text
IdentSymbol(id) ==
    CASE id = DefaultSchema -> "public"
      [] id = <<"t">>       -> "t"
      [] id = <<"a">>       -> "a"
      [] OTHER              -> "ident"

\* `${limit}`
NumSymbol(n) ==
    CASE n = 5 -> "5"
      [] n = 1 -> "1"
      [] OTHER -> "n"

FromWhere(a) ==
    <<"\n", " ", "FROM", " ", IdentSymbol(a.schema.text), ".",
      IdentSymbol(a.table.text), "\n", " ", "WHERE", " ">> \o a.where.text

\* countQuery
CountQuery(a) ==
    <<"\n", " ", "SELECT", " ", "COUNT", "(", "*", ")", " ", "as", " ", "count">>
    \o FromWhere(a) \o <<"\n", " ">>

\* sampleQuery
SampleQuery(a, limit) ==
    <<"\n", " ", "SELECT", " ", "*">> \o FromWhere(a)
    \o <<"\n", " ", "LIMIT", " ", NumSymbol(limit), "\n", " ">>

\* setClause: the raw string, or `${column} = $1` for a record of one column
SetClause(set) ==
    IF set.kind = "string" THEN set.text
    ELSE <<IdentSymbol(set.text), " ", "=", " ", "$", "1">>

\* updateQuery
UpdateQuery(a) ==
    <<"\n", " ", "UPDATE", " ", IdentSymbol(a.schema.text), ".",
      IdentSymbol(a.table.text), "\n", " ", "SET", " ">> \o SetClause(a.set)
    \o <<"\n", " ", "WHERE", " ">> \o a.where.text \o <<"\n", " ">>

\* deleteQuery
DeleteQuery(a) ==
    <<"\n", " ", "DELETE", " ", "FROM", " ", IdentSymbol(a.schema.text), ".",
      IdentSymbol(a.table.text), "\n", " ", "WHERE", " ">> \o a.where.text
    \o <<"\n", " ">>

NoResponse == [kind |-> "none", error |-> ""]

MutIdle ==
    [pc |-> "idle", tool |-> "", raw |-> NoMutArgs, args |-> NoMutArgs,
     count |-> 0, pending |-> {}, response |-> NoResponse, rowsAffected |-> 0]

\* the handler returns { blocked: true }, { dryRun: true }, { success: true }
\* or a preview, or throws
MutRespond(m, kind) ==
    [m EXCEPT !.pc = "done", !.response = [kind |-> kind, error |-> ""]]
MutThrow(m, msg) ==
    [m EXCEPT !.pc = "done", !.response = [kind |-> "error", error |-> msg]]

\* the text of the statement the call is waiting for
StepQuery(m, step) ==
    CASE step \in {"counting", "count"} -> CountQuery(m.args)
      [] step = "sampling" -> SampleQuery(m.args, 5)
      [] step = "sample"   -> SampleQuery(m.args, m.args.limit.n)
      [] OTHER -> IF m.tool = "safeUpdate" THEN UpdateQuery(m.args)
                  ELSE DeleteQuery(m.args)

\* executeQuery up to `await pool.connect()`: sanitizeQuery on the built text
mutationExecuteStart(m, step) ==
    LET verdict == sanitizeQuery(StepQuery(m, step), config.mode)
    IN  IF verdict # Ok THEN MutThrow(m, verdict) ELSE [m EXCEPT !.pc = step]

\* Promise.all of the two executeQuery calls of a preview: both are started
previewStart(m) ==
    LET ok == {w \in {"count", "sample"} :
                  sanitizeQuery(StepQuery(m, w), config.mode) = Ok}
    IN  IF ok = {"count", "sample"}
        THEN [m EXCEPT !.pc = "previewing", !.pending = ok]
        ELSE [MutThrow(m, sanitizeQuery(StepQuery(m, "count"), config.mode))
                 EXCEPT !.pending = ok]

\* the handlers up to their first await: validateUserWhereClause, the two
\* sanitizeIdentifier calls, validateWhereClause, then the count query
mutationStart(m) ==
    LET a == m.args
        allowEmpty == IF m.tool \in PreviewTools THEN FALSE
                      ELSE a.allowEmptyWhere.n = 1
    IN  IF validateUserWhereClause(a.where.text) # Ok
        THEN MutThrow(m, validateUserWhereClause(a.where.text))
        ELSE IF sanitizeIdentifier(a.schema.text).status = "error"
        THEN MutThrow(m, ErrIdentifier)
        ELSE IF sanitizeIdentifier(a.table.text).status = "error"
        THEN MutThrow(m, ErrIdentifier)
        ELSE IF ~validateWhereClause(a.where.text, allowEmpty).valid
        THEN MutRespond(m, "blocked")
        ELSE IF m.tool \in PreviewTools THEN previewStart(m)
        ELSE mutationExecuteStart(m, "counting")

\* variant: the dryRun flag is not consulted
afterCountIgnoresDryRun(m, count) ==
    LET counted == [m EXCEPT !.count = count]
    IN  IF count > m.args.maxRows.n THEN MutRespond(counted, "blocked")
        ELSE mutationExecuteStart(counted, "modifying")

\* safeUpdate / safeDelete once the count query resolved: the maxRows guard,
\* the dry run, the SET clause, then the UPDATE or DELETE
afterCount(m, count) ==
    LET counted == [m EXCEPT !.count = count]
    IN  IF count > m.args.maxRows.n THEN MutRespond(counted, "blocked")
        ELSE IF m.args.dryRun.n = 1
        THEN mutationExecuteStart(counted, "sampling")
        ELSE IF /\ m.tool = "safeUpdate"
                /\ m.args.set.kind = "object"
                /\ sanitizeIdentifier(m.args.set.text).status = "error"
        THEN MutThrow(counted, ErrIdentifier)
        ELSE mutationExecuteStart(counted, "modifying")

\* what an executeQuery call has sent when it ends at a stage: nothing when
\* pool.connect() failed, the SET alone when it failed, else the statement too
Sent(text, stage) ==
    CASE stage = "connect" -> {}
      [] stage = "SET" -> {SetStatement(0, config.queryTimeout)}
      [] OTHER -> {SetStatement(0, config.queryTimeout), QueryStatement(0, text, 0)}

FailStages == {"connect", "SET", "query"}

Tables == {<<"t">>, <<"t", " ">>}

Wheres ==
    {<<"1", "=", "1">>, <<" ", "TRUE", " ">>, <<"id", "=", "7">>, <<>>,
     <<"id", "=", "7", ";", " ", "drop">>}

RawSetText == <<"a", "=", "1">>

BaseArgs ==
    {[NoMutArgs EXCEPT !.table = Str(t), !.where = Str(w)] :
        t \in Tables, w \in Wheres}

GuardArgs ==
    {[b EXCEPT !.dryRun = d, !.maxRows = m, !.allowEmptyWhere = e] :
        b \in BaseArgs, d \in {Undefined, Bool(TRUE)},
        m \in {Undefined, Num(1)}, e \in {Undefined, Bool(TRUE)}}

\* the raw argument objects a client sends to a mutation tool
MutationArgs(tool) ==
    IF tool \in PreviewTools
    THEN {[b EXCEPT !.limit = l] : b \in BaseArgs, l \in {Undefined, Num(1)}}
    ELSE IF tool = "safeDelete" THEN GuardArgs
    ELSE {[g EXCEPT !.set = s, !.allowRawSet = r] :
             g \in GuardArgs, s \in {Str(RawSetText), Obj(<<"a">>)},
             r \in {Undefined, Bool(TRUE)}}

\* executeTool calls a mutation tool: schema.parse, then the handler
MutationCall ==
    /\ mut.pc = "idle"
    /\ \E tool \in MutationTools :
         \E args \in MutationArgs(tool) :
           LET parsed == MutationSchemaParse(tool, args)
               m == [mut EXCEPT !.tool = tool, !.raw = args,
                                !.args = parsed.data]
           IN  mut' = IF ~parsed.success THEN MutThrow(m, ErrValidation)
                      ELSE mutationStart(m)
    /\ UNCHANGED <<lifecycleVars, monitoringVars, session, sanitizerVars, config, now, limiterVars, dispatchVars, rows>>

\* the count query of safeUpdate / safeDelete resolved
CountDone ==
    /\ mut.pc = "counting"
    /\ executed' = executed \cup Sent(StepQuery(mut, "counting"), "ok")
    /\ mut' = afterCount(mut, rows)
    /\ UNCHANGED <<lifecycleVars, monitoringVars, session, sanitizerVars, config, now, limiterVars, inv, checkedOut, rows>>

\* the sample query of a dry run resolved
SampleDone ==
    /\ mut.pc = "sampling"
    /\ executed' = executed \cup Sent(StepQuery(mut, "sampling"), "ok")
    /\ mut' = MutRespond(mut, "dryRun")
    /\ UNCHANGED <<lifecycleVars, monitoringVars, session, sanitizerVars, config, now, limiterVars, inv, checkedOut, rows>>

\* the UPDATE or DELETE resolved: it acted on the rows matching at that time
ModifyDone ==
    /\ mut.pc = "modifying"
    /\ executed' = executed \cup Sent(StepQuery(mut, "modifying"), "ok")
    /\ mut' = MutRespond([mut EXCEPT !.rowsAffected = rows], "success")
    /\ rows' = IF mut.tool = "safeDelete" THEN 0 ELSE rows
    /\ UNCHANGED <<lifecycleVars, monitoringVars, session, sanitizerVars, config, now, limiterVars, inv, checkedOut>>

\* the executeQuery call a safeUpdate / safeDelete awaits failed
ExecuteFail ==
    /\ mut.pc \in {"counting", "sampling", "modifying"}
    /\ \E stage \in FailStages :
         /\ executed' = executed \cup Sent(StepQuery(mut, mut.pc), stage)
         /\ mut' = MutThrow(mut, IF stage = "connect" THEN ErrConnect
                                 ELSE ErrDatabase)
    /\ UNCHANGED <<lifecycleVars, monitoringVars, session, sanitizerVars, config, now, limiterVars, inv, checkedOut, rows>>

\* one of the two executeQuery calls of a preview resolved
PreviewDone ==
    /\ mut.tool \in PreviewTools
    /\ \E w \in mut.pending :
         LET m == [mut EXCEPT !.pending = @ \ {w},
                              !.count = IF w = "count" THEN rows ELSE @]
         IN  /\ executed' = executed \cup Sent(StepQuery(mut, w), "ok")
             /\ mut' = IF m.pc = "previewing" /\ m.pending = {}
                       THEN MutRespond(m, "preview") ELSE m
    /\ UNCHANGED <<lifecycleVars, monitoringVars, session, sanitizerVars, config, now, limiterVars, inv, checkedOut, rows>>

\* one of the two executeQuery calls of a preview failed: Promise.all rejects
\* at once, the other call runs on
PreviewFail ==
    /\ mut.tool \in PreviewTools
    /\ \E w \in mut.pending :
         \E stage \in FailStages :
           LET m == [mut EXCEPT !.pending = @ \ {w}]
           IN  /\ executed' = executed \cup Sent(StepQuery(mut, w), stage)
               /\ mut' = IF m.pc = "previewing"
                         THEN MutThrow(m, IF stage = "connect" THEN ErrConnect
                                          ELSE ErrDatabase)
                         ELSE m
    /\ UNCHANGED <<lifecycleVars, monitoringVars, session, sanitizerVars, config, now, limiterVars, inv, checkedOut, rows>>

\* another database session inserts, deletes or changes matching rows
OtherSession ==
    /\ \E n \in 0..MaxTableRows : n # rows /\ rows' = n
    /\ UNCHANGED <<lifecycleVars, monitoringVars, session, sanitizerVars, config, now, limiterVars, dispatchVars, mut>>

(***************************************************************************)
(* Tools that place a fragment into a SELECT: findRecent,                  *)
(* checkConstraintViolations, exportTable, generateInsertStatements        *)
(***************************************************************************)
ErrConditionEmpty     == "Condition cannot be empty"
ErrConditionDangerous == "Potentially dangerous pattern detected in condition"
ErrConditionParens    == "Unbalanced parentheses in condition"

\* the message validateCondition throws, or Ok when it returns
validateCondition(condition) ==
    LET trimmed == Trim(condition)
    IN  IF trimmed = <<>> THEN ErrConditionEmpty
        ELSE IF WHERE_DANGEROUS_PATTERNS(trimmed) THEN ErrConditionDangerous
        ELSE IF CountOf(trimmed, "(") # CountOf(trimmed, ")") THEN ErrConditionParens
        ELSE Ok

\* first index >= i that holds no digit (Len(q) + 1 when there is none)
RECURSIVE SkipDigits(_, _)
SkipDigits(q, i) ==
    IF i > Len(q) THEN Len(q) + 1
    ELSE IF q[i] \in Digits THEN SkipDigits(q, i + 1) ELSE i

\* (second|minute|hour|day|week|month|year)s?
IntervalUnits ==
    {"second", "seconds", "minute", "minutes", "hour", "hours", "day", "days",
     "week", "weeks", "month", "months", "year", "years"}

\* /^\d+\s+(second|minute|hour|day|week|month|year)s?$/i
validIntervalPattern(q) ==
    LET j == SkipDigits(q, 1)
        k == SkipSpaces(q, j)
    IN  /\ j > 1
        /\ k > j
        /\ k = Len(q)
        /\ ToLowerCase(q[k]) \in IntervalUnits

ErrIntervalEmpty  == "Interval cannot be empty"
ErrIntervalFormat == "Invalid interval format"

\* the message validateInterval throws, or Ok when it returns
validateInterval(interval) ==
    IF Trim(interval) = <<>> THEN ErrIntervalEmpty
    ELSE IF ~validIntervalPattern(Trim(interval)) THEN ErrIntervalFormat
    ELSE Ok

\* first index >= i that holds no [\w"] (Len(q) + 1 when there is none)
RECURSIVE SkipWord(_, _)
SkipWord(q, i) ==
    IF i > Len(q) THEN Len(q) + 1
    ELSE IF IsWordSym(q[i]) THEN SkipWord(q, i + 1) ELSE i

\* [\w"]+(\s+(ASC|DESC))?(,\s*[\w"]+(\s+(ASC|DESC))?)*$ from index i
RECURSIVE OrderItems(_, _)
OrderItems(q, i) ==
    LET j == SkipWord(q, i)
        k == SkipSpaces(q, j)
        \* the column alone, or the column, whitespace and a last word ASC / DESC
        plain == j > i /\ (j > Len(q) \/ q[j] = ",")
        j2 == SkipWord(q, k)
        directed == /\ j > i /\ k > j /\ j2 = k + 1
                    /\ ToUpperCase(q[k]) \in {"ASC", "DESC"}
        e == IF directed THEN j2 ELSE j
    IN  /\ plain \/ directed
        /\ \/ e > Len(q)
           \/ /\ q[e] = ","
              /\ OrderItems(q, SkipSpaces(q, e + 1))

\* /^[\w"]+(\s+(ASC|DESC))?(,\s*[\w"]+(\s+(ASC|DESC))?)*$/i
validOrderPattern(q) == OrderItems(q, 1)

ErrOrderDangerous == "Potentially dangerous pattern detected in ORDER BY clause"
ErrOrderFormat    == "Invalid ORDER BY format"

\* the message validateOrderBy throws, or Ok when it returns
validateOrderBy(orderBy) ==
    LET trimmed == Trim(orderBy)
    IN  IF trimmed = <<>> THEN Ok
        ELSE IF WHERE_DANGEROUS_PATTERNS(trimmed) THEN ErrOrderDangerous
        ELSE IF ~validOrderPattern(trimmed) THEN ErrOrderFormat
        ELSE Ok

FragmentTools ==
    {"findRecent", "checkConstraintViolations", "exportTable",
     "generateInsertStatements"}

\* FindRecentSchema, CheckConstraintViolationsSchema, ExportTableSchema and
\* GenerateInsertStatementsSchema .parse(args), for the keys that reach a
\* validator or the statement text
FragmentSchemaParse(tool, args) ==
    [success |->
        /\ args.table.kind = "string"
        /\ IsOptional(args.schema, "string")
        /\ tool = "checkConstraintViolations" => args.condition.kind = "string"
        /\ tool # "checkConstraintViolations" => IsOptional(args.where, "string")
        /\ tool = "findRecent" =>
               /\ args.timestampColumn.kind = "string"
               /\ args.timeWindow.kind = "string"
               /\ IsOptional(args.orderBy, "string"),
     data |->
        [NoMutArgs EXCEPT
            !.table = args.table,
            !.schema = WithDefault(args.schema, Str(DefaultSchema)),
            !.where = IF tool = "checkConstraintViolations" THEN Undefined
                      ELSE args.where,
            !.condition = IF tool = "checkConstraintViolations"
                          THEN args.condition ELSE Undefined,
            !.timestampColumn = IF tool = "findRecent"
                                THEN args.timestampColumn ELSE Undefined,
            !.timeWindow = IF tool = "findRecent" THEN args.timeWindow
                           ELSE Undefined,
            !.orderBy = IF tool = "findRecent" THEN args.orderBy
                        ELSE Undefined]]

\* `if (where)`, `where ? ... : ''`, `orderBy || ...` on an optional string
Truthy(v) == v.kind = "string" /\ v.text # <<>>

FromTable(a) ==
    <<"\n", " ", "FROM", " ", IdentSymbol(a.schema.text), ".",
      IdentSymbol(a.table.text), "\n", " ">>

\* findRecent: WHERE ts >= NOW() - INTERVAL '${timeWindow}' ${whereClause}
RecentWhere(a) ==
    <<"WHERE", " ", IdentSymbol(a.timestampColumn.text), " ", ">=", " ",
      "NOW", "(", ")", " ", "-", " ", "INTERVAL", " ", "'">>
    \o a.timeWindow.text \o <<"'", "\n", " ">>
    \o (IF Truthy(a.where)
        THEN <<"AND", " ", "(">> \o a.where.text \o <<")">> ELSE <<>>)

\* findRecent: query
RecentQuery(a) ==
    <<"\n", " ", "SELECT", " ", "*">> \o FromTable(a) \o RecentWhere(a)
    \o <<"\n", " ", "ORDER", " ", "BY", " ">>
    \o (IF Truthy(a.orderBy) THEN a.orderBy.text
        ELSE <<IdentSymbol(a.timestampColumn.text), " ", "DESC">>)
    \o <<"\n", " ", "LIMIT", " ", "$", "1", "\n", " ">>

\* findRecent: countQuery
RecentCountQuery(a) ==
    <<"\n", " ", "SELECT", " ", "COUNT", "(", "*", ")", " ", "as", " ",
      "rows_found", ",", " ", "NOW", "(", ")", " ", "-", " ", "INTERVAL",
      " ", "'">> \o a.timeWindow.text
    \o <<"'", " ", "as", " ", "threshold">> \o FromTable(a) \o RecentWhere(a)
    \o <<"\n", " ">>

\* checkConstraintViolations: violationsQuery
ViolationsQuery(a) ==
    <<"\n", " ", "SELECT", " ", "*">> \o FromTable(a)
    \o <<"WHERE", " ", "NOT", " ", "(">> \o a.condition.text
    \o <<")", "\n", " ", "LIMIT", " ", "100", "\n", " ">>

\* checkConstraintViolations: countQuery
ViolationsCountQuery(a) ==
    <<"\n", " ", "SELECT", " ", "COUNT", "(", "*", ")", " ", "as", " ",
      "violation_count">> \o FromTable(a)
    \o <<"WHERE", " ", "NOT", " ", "(">> \o a.condition.text
    \o <<")", "\n", " ">>

\* exportTable: query (no `columns`), generateInsertStatements: dataQuery
ExportQuery(a) ==
    <<"\n", " ", "SELECT", " ", "*">> \o FromTable(a)
    \o (IF Truthy(a.where) THEN <<"WHERE", " ">> \o a.where.text ELSE <<>>)
    \o <<"\n", " ", "LIMIT", " ", "$", "1", "\n", " ">>

\* generateInsertStatements: columnsQuery
ColumnsQuery ==
    <<"\n", " ", "SELECT", " ", "column_name", "\n", " ", "FROM", " ",
      "information_schema", ".", "columns", "\n", " ", "WHERE", " ",
      "table_schema", " ", "=", " ", "$", "1", "\n", " ", "AND", " ",
      "table_name", " ", "=", " ", "$", "2", "\n", " ", "ORDER", " ", "BY",
      " ", "ordinal_position", "\n", " ">>

\* the text of statement w of the call
FragmentQuery(m, w) ==
    CASE w = "recent"          -> RecentQuery(m.args)
      [] w = "recentCount"     -> RecentCountQuery(m.args)
      [] w = "violations"      -> ViolationsQuery(m.args)
      [] w = "violationsCount" -> ViolationsCountQuery(m.args)
      [] w = "columns"         -> ColumnsQuery
      [] OTHER                 -> ExportQuery(m.args)

\* the executeQuery calls the handler starts before its next await, each up
\* to `await pool.connect()`: sanitizeQuery on the built text
fragmentExecuteStart(m, steps) ==
    LET ok == {w \in steps :
                  sanitizeQuery(FragmentQuery(m, w), config.mode) = Ok}
        \* Promise.all rejects with the first rejection of its array
        first == CHOOSE w \in steps : w \notin {"recentCount", "violationsCount"}
        bad == IF first \notin ok THEN first ELSE CHOOSE w \in steps \ ok : TRUE
    IN  IF ok = steps THEN [m EXCEPT !.pc = "querying", !.pending = ok]
        ELSE [MutThrow(m, sanitizeQuery(FragmentQuery(m, bad), config.mode))
                 EXCEPT !.pending = ok]

\* variant: the fragments are passed to the statement text unvalidated
fragmentStartUnvalidated(m) ==
    LET a == m.args
    IN  IF sanitizeIdentifier(a.schema.text).status = "error"
        THEN MutThrow(m, ErrIdentifier)
        ELSE IF sanitizeIdentifier(a.table.text).status = "error"
        THEN MutThrow(m, ErrIdentifier)
        ELSE IF /\ m.tool = "findRecent"
                /\ sanitizeIdentifier(a.timestampColumn.text).status = "error"
        THEN MutThrow(m, ErrIdentifier)
        ELSE fragmentExecuteStart(m,
                 CASE m.tool = "findRecent" -> {"recent", "recentCount"}
                   [] m.tool = "checkConstraintViolations" ->
                          {"violations", "violationsCount"}
                   [] m.tool = "exportTable" -> {"export"}
                   [] OTHER -> {"columns"})

\* the handlers up to their first await: the validators of the fragments, the
\* sanitizeIdentifier calls, then the first statement(s)
fragmentStart(m) ==
    LET a == m.args
    IN  IF m.tool = "checkConstraintViolations"
           /\ validateCondition(a.condition.text) # Ok
        THEN MutThrow(m, validateCondition(a.condition.text))
        ELSE IF m.tool = "findRecent" /\ validateInterval(a.timeWindow.text) # Ok
        THEN MutThrow(m, validateInterval(a.timeWindow.text))
        ELSE IF /\ m.tool # "checkConstraintViolations"
                /\ Truthy(a.where)
                /\ validateUserWhereClause(a.where.text) # Ok
        THEN MutThrow(m, validateUserWhereClause(a.where.text))
        ELSE IF /\ m.tool = "findRecent"
                /\ Truthy(a.orderBy)
                /\ validateOrderBy(a.orderBy.text) # Ok
        THEN MutThrow(m, validateOrderBy(a.orderBy.text))
        ELSE IF sanitizeIdentifier(a.schema.text).status = "error"
        THEN MutThrow(m, ErrIdentifier)
        ELSE IF sanitizeIdentifier(a.table.text).status = "error"
        THEN MutThrow(m, ErrIdentifier)
        ELSE IF /\ m.tool = "findRecent"
                /\ sanitizeIdentifier(a.timestampColumn.text).status = "error"
        THEN MutThrow(m, ErrIdentifier)
        ELSE fragmentExecuteStart(m,
                 CASE m.tool = "findRecent" -> {"recent", "recentCount"}
                   [] m.tool = "checkConstraintViolations" ->
                          {"violations", "violationsCount"}
                   [] m.tool = "exportTable" -> {"export"}
                   [] OTHER -> {"columns"})

\* a statement resolved: generateInsertStatements goes on to its dataQuery,
\* the other handlers return once all their statements resolved
afterFragment(m, w) ==
    IF m.pc # "querying" \/ m.pending # {} THEN m
    ELSE IF w = "columns" THEN fragmentExecuteStart(m, {"data"})
    ELSE MutRespond(m, "result")

Fragments ==
    {Undefined, Str(<<"id", "=", "7">>), Str(<<>>),
     Str(<<"id", "=", "7", ";", " ", "drop">>), Str(<<"id", "=", "(", "7">>)}

TimeWindows == {Str(<<"7", " ", "days">>), Str(<<"24h">>), Str(<<" ">>)}

OrderBys == {Undefined, Str(<<"a", " ", "DESC", ",", "b">>), Str(<<"a", "(", ")">>)}

\* the raw argument objects a client sends to one of these tools
FragmentArgs(tool) ==
    LET base == {[NoMutArgs EXCEPT !.table = Str(t)] : t \in Tables}
    IN  CASE tool = "checkConstraintViolations" ->
                 {[b EXCEPT !.condition = c] : b \in base, c \in Fragments}
          [] tool = "findRecent" ->
                 {[b EXCEPT !.timestampColumn = Str(<<"a">>), !.timeWindow = tw,
                            !.where = w, !.orderBy = o] :
                     b \in base, tw \in TimeWindows, w \in Fragments,
                     o \in OrderBys}
          [] OTHER -> {[b EXCEPT !.where = w] : b \in base, w \in Fragments}

\* executeTool calls one of the tools: schema.parse, then the handler
FragmentCall ==
    /\ mut.pc = "idle"
    /\ \E tool \in FragmentTools :
         \E args \in FragmentArgs(tool) :
           LET parsed == FragmentSchemaParse(tool, args)
               m == [mut EXCEPT !.tool = tool, !.raw = args,
                                !.args = parsed.data]
           IN  mut' = IF ~parsed.success THEN MutThrow(m, ErrValidation)
                      ELSE fragmentStart(m)
    /\ UNCHANGED <<lifecycleVars, monitoringVars, session, sanitizerVars, config, now, limiterVars, dispatchVars, rows>>

\* one of the executeQuery calls in flight resolved
FragmentDone ==
    /\ mut.tool \in FragmentTools
    /\ \E w \in mut.pending :
         /\ executed' = executed \cup Sent(FragmentQuery(mut, w), "ok")
         /\ mut' = afterFragment([mut EXCEPT !.pending = @ \ {w}], w)
    /\ UNCHANGED <<lifecycleVars, monitoringVars, session, sanitizerVars, config, now, limiterVars, inv, checkedOut, rows>>

\* one of the executeQuery calls in flight failed: the handler (or its
\* Promise.all) rejects at once, a sibling call runs on
FragmentFail ==
    /\ mut.tool \in FragmentTools
    /\ \E w \in mut.pending :
         \E stage \in FailStages :
           LET m == [mut EXCEPT !.pending = @ \ {w}]
           IN  /\ executed' = executed \cup Sent(FragmentQuery(mut, w), stage)
               /\ mut' = IF m.pc = "querying"
                         THEN MutThrow(m, IF stage = "connect" THEN ErrConnect
                                          ELSE ErrDatabase)
                         ELSE m
    /\ UNCHANGED <<lifecycleVars, monitoringVars, session, sanitizerVars, config, now, limiterVars, inv, checkedOut, rows>>

(***************************************************************************)
(* Live monitoring tools: getLiveMetrics, getHottestTables                 *)
(***************************************************************************)
Infinity == [kind |-> "Infinity", n |-> 1, text |-> <<>>]
NegInfinity == [kind |-> "Infinity", n |-> -1, text |-> <<>>]

\* Math.floor(a / b) of JavaScript for integers a and b
MathFloorDivide(a, b) ==
    IF b = 0
    THEN IF a = 0 THEN NaN ELSE IF a > 0 THEN Infinity ELSE NegInfinity
    ELSE IF b > 0 THEN Num(a \div b) ELSE Num((-a) \div (-b))

\* k < v for an integer k and a JavaScript number v
LessThan(k, v) ==
    CASE v.kind = "number" -> k < v.n
      [] v.kind = "Infinity" -> v.n > 0
      [] OTHER -> FALSE

\* v - 1
MinusOne(v) == IF v.kind = "number" THEN Num(v.n - 1) ELSE v

LiveTools == {"getLiveMetrics", "getHottestTables"}
SnapshotQueries == 5
DefaultDuration == 10000
DefaultInterval == 1000
DefaultSampleDuration == 5000

NoLiveArgs == [duration |-> Undefined, interval |-> Undefined, schema |-> Undefined]

\* GetLiveMetricsSchema, GetHottestTablesSchema: z.number() and z.string()
\* fields, optional with defaults (duration stands for sampleDuration too)
LiveSchemaParse(tool, args) ==
    LET numeric(v) == v.kind \in {"undefined", "number"}
    IN  IF tool = "getLiveMetrics"
        THEN [success |-> numeric(args.duration) /\ numeric(args.interval),
              data |-> [duration |-> WithDefault(args.duration, Num(DefaultDuration)),
                        interval |-> WithDefault(args.interval, Num(DefaultInterval)),
                        schema |-> Undefined]]
        ELSE [success |-> /\ numeric(args.duration)
                          /\ args.schema.kind \in {"undefined", "string"},
              data |-> [duration |-> WithDefault(args.duration,
                                                 Num(DefaultSampleDuration)),
                        interval |-> Undefined,
                        schema |-> WithDefault(args.schema, Str(DefaultSchema))]]

\* waiting, holding: the handler's executeQuery calls waiting in pool.connect()
\* and between pool.connect() and client.release(); resolved, rejected: those
\* of the current await that returned and threw; timedOut: those whose
\* pool.connect() was rejected
LiveIdle ==
    [pc |-> "idle", tool |-> "", args |-> NoLiveArgs, iterations |-> Num(0),
     i |-> 0, samples |-> 0, waiting |-> 0, holding |-> 0, resolved |-> 0,
     rejected |-> 0, timedOut |-> 0, response |-> NoResponse]

LiveRespond(l) == [l EXCEPT !.pc = "done", !.response = [kind |-> "ok", error |-> ""]]
LiveThrow(l, msg) ==
    [l EXCEPT !.pc = "done", !.response = [kind |-> "error", error |-> msg]]

ErrTypeError == "Cannot read properties of undefined"

\* the executeQuery calls the handler awaits at once: the Promise.all of
\* collectMetricSnapshot, the single call of getHottestTables
AwaitedQueries(l) == IF l.tool = "getLiveMetrics" THEN SnapshotQueries ELSE 1

\* collectMetricSnapshot / executeQuery: every call runs to its pool.connect()
startQueries(l) ==
    [l EXCEPT !.pc = "sampling", !.waiting = @ + AwaitedQueries(l),
              !.resolved = 0]

\* getLiveMetrics after its loop: snapshots[snapshots.length - 1] of an empty
\* array is undefined and reading last.transactions throws
liveSummary(l) ==
    IF l.samples = 0 THEN LiveThrow(l, ErrTypeError) ELSE LiveRespond(l)

\* for (...; i < iterations; ...): the loop test of getLiveMetrics
liveLoop(l) ==
    IF LessThan(l.i, l.iterations) THEN startQueries(l) ELSE liveSummary(l)

\* the handler up to its first await
liveStart(l) ==
    IF l.tool = "getLiveMetrics"
    THEN liveLoop([l EXCEPT !.iterations =
                      MathFloorDivide(l.args.duration.n, l.args.interval.n)])
    ELSE IF sanitizeIdentifier(l.args.schema.text).status = "error"
         THEN LiveThrow(l, ErrIdentifier)
         ELSE startQueries(l)

\* n + 1 for a counter of the poll loop; of a loop that never ends only
\* "MaxSamples or more" is kept
NextCount(l, n) ==
    IF l.iterations.kind = "Infinity" /\ n >= MaxSamples THEN n ELSE n + 1

\* the awaited calls all returned: getLiveMetrics pushes the snapshot and
\* sleeps unless it was the last; getHottestTables sleeps after its first
\* read and returns after its second
afterQueries(l) ==
    IF l.tool = "getLiveMetrics"
    THEN LET pushed == [l EXCEPT !.samples = NextCount(l, @)]
         IN  IF LessThan(l.i, MinusOne(l.iterations))
             THEN [pushed EXCEPT !.pc = "sleeping"]
             ELSE liveLoop([pushed EXCEPT !.i = @ + 1])
    ELSE IF l.i = 0 THEN [l EXCEPT !.samples = 1, !.pc = "sleeping"]
         ELSE LiveRespond([l EXCEPT !.samples = 2])

\* variant: the handler goes on as soon as one of the awaited calls returned
promiseAllFirst(l) ==
    IF l.rejected > 0 THEN "rejected"
    ELSE IF l.resolved >= 1 THEN "resolved" ELSE "pending"

\* Promise.all: rejected with the first call that throws, resolved when all
\* returned
promiseAll(l) ==
    IF l.rejected > 0 THEN "rejected"
    ELSE IF l.resolved = AwaitedQueries(l) THEN "resolved" ELSE "pending"

\* the handler resumes when its await settles; a rejection leaves the handler
\* while its other calls are still running
liveResume(l, msg) ==
    IF l.pc # "sampling" THEN l
    ELSE CASE promiseAll(l) = "rejected" -> LiveThrow(l, msg)
           [] promiseAll(l) = "resolved" -> afterQueries(l)
           [] OTHER -> l

\* inputs: durations and intervals positive, zero, negative and absent
LiveNumbers == {Undefined, Num(0), Num(1000), Num(2000), Num(-1000)}
LiveArgs(tool) ==
    IF tool = "getLiveMetrics"
    THEN {[NoLiveArgs EXCEPT !.duration = d, !.interval = i] :
             d \in LiveNumbers, i \in LiveNumbers \cup {Num(3000)}}
    ELSE {[NoLiveArgs EXCEPT !.duration = Num(1000), !.schema = s] :
             s \in {Undefined, Str(<<"a">>), Str(<<"a", ";">>)}}

\* a live-monitoring tool is called with schema-valid arguments
LiveCall ==
    /\ live.pc = "idle"
    /\ \E tool \in LiveTools : \E args \in LiveArgs(tool) :
         LET parsed == LiveSchemaParse(tool, args)
         IN  /\ parsed.success
             /\ live' = liveStart([live EXCEPT !.tool = tool, !.args = parsed.data])
    /\ UNCHANGED <<lifecycleVars, session, mutationVars, sanitizerVars, config, now, limiterVars,
                   dispatchVars>>

\* pool.connect() of a waiting call resolves
LiveConnect ==
    /\ live.waiting > 0
    /\ PoolOpen
    /\ checkedOut < PoolMax
    /\ live' = [live EXCEPT !.waiting = @ - 1, !.holding = @ + 1]
    /\ checkedOut' = checkedOut + 1
    /\ UNCHANGED <<lifecycleVars, session, mutationVars, sanitizerVars, config, now, limiterVars,
                   inv, executed>>

\* pool.connect() of a waiting call rejects after connectionTimeoutMillis
LiveConnectFail ==
    /\ live.waiting > 0
    /\ live' = liveResume([live EXCEPT !.waiting = @ - 1, !.rejected = @ + 1,
                                       !.timedOut = @ + 1], ErrConnect)
    /\ UNCHANGED <<lifecycleVars, session, mutationVars, sanitizerVars, config, now, limiterVars,
                   dispatchVars>>

\* the SET and the statement of a call succeeded; it releases and returns
LiveQueryDone ==
    /\ live.holding > 0
    /\ live' = liveResume([live EXCEPT !.holding = @ - 1, !.resolved = @ + 1],
                          ErrDatabase)
    /\ checkedOut' = clientRelease(checkedOut, TRUE)
    /\ UNCHANGED <<lifecycleVars, session, mutationVars, sanitizerVars, config, now, limiterVars,
                   inv, executed>>

\* the SET or the statement of a call failed; it releases and throws
LiveQueryFail ==
    /\ live.holding > 0
    /\ live' = liveResume([live EXCEPT !.holding = @ - 1, !.rejected = @ + 1],
                          ErrDatabase)
    /\ checkedOut' = clientRelease(checkedOut, TRUE)
    /\ UNCHANGED <<lifecycleVars, session, mutationVars, sanitizerVars, config, now, limiterVars,
                   inv, executed>>

\* the setTimeout of the sleep fires: the next poll starts
LiveWakeUp ==
    /\ live.pc = "sleeping"
    /\ live' = IF live.tool = "getLiveMetrics"
               THEN liveLoop([live EXCEPT !.i = NextCount(live, @)])
               ELSE startQueries([live EXCEPT !.i = 1])
    /\ UNCHANGED <<lifecycleVars, session, mutationVars, sanitizerVars, config, now, limiterVars,
                   dispatchVars>>

(***************************************************************************)
(* testConnection and the shutdown handler of main                         *)
(***************************************************************************)
ProbeIdle ==
    [pc |-> "idle", client |-> FALSE, acquired |-> FALSE, succeeded |-> FALSE,
     returned |-> "none", raised |-> FALSE]

\* testConnection: catch (error) { return false }; nothing is released there
testConnectionCatch(p) == [p EXCEPT !.pc = "done", !.returned = "false"]

\* testConnection is called: it runs to its pool.connect()
TestConnectionCall ==
    /\ probe.pc = "idle"
    /\ probe' = [probe EXCEPT !.pc = "connecting"]
    /\ UNCHANGED <<proc, monitoringVars, session, mutationVars, sanitizerVars,
                   config, now, limiterVars, dispatchVars>>

\* pool.connect() resolves; SELECT 1 is sent
ProbeConnect ==
    /\ probe.pc = "connecting"
    /\ PoolOpen
    /\ checkedOut < PoolMax
    /\ probe' = [probe EXCEPT !.pc = "querying", !.client = TRUE, !.acquired = TRUE]
    /\ checkedOut' = checkedOut + 1
    /\ UNCHANGED <<proc, monitoringVars, session, mutationVars, sanitizerVars,
                   config, now, limiterVars, inv, executed>>

\* pool.connect() rejects
ProbeConnectFail ==
    /\ probe.pc = "connecting"
    /\ probe' = testConnectionCatch(probe)
    /\ UNCHANGED <<proc, monitoringVars, session, mutationVars, sanitizerVars,
                   config, now, limiterVars, dispatchVars>>

\* SELECT 1 succeeded: client.release(); return true
ProbeQueryDone ==
    /\ probe.pc = "querying"
    /\ probe' = [probe EXCEPT !.pc = "done", !.client = FALSE, !.succeeded = TRUE,
                              !.returned = "true"]
    /\ checkedOut' = clientRelease(checkedOut, probe.client)
    /\ UNCHANGED <<proc, monitoringVars, session, mutationVars, sanitizerVars,
                   config, now, limiterVars, inv, executed>>

\* SELECT 1 failed: control passes to the catch block
ProbeQueryFail ==
    /\ probe.pc = "querying"
    /\ probe' = testConnectionCatch(probe)
    /\ UNCHANGED <<proc, monitoringVars, session, mutationVars, sanitizerVars,
                   config, now, limiterVars, dispatchVars>>

\* the process: running until process.exit; ending and ended follow
\* pool.end(); startedBefore holds the invocations received before the first
\* signal
Running ==
    [state |-> "running", exitCode |-> 0, signals |-> 0, ending |-> FALSE,
     ended |-> FALSE, startedBefore |-> {}]

\* what a second pool.end() on a pool that is already ending does lies with
\* the driver and the runtime: it resolves with the first, or it rejects and
\* closeDatabaseConnection rethrows out of shutdown, an unhandled rejection
\* that ends the process with code 1 or is only reported
PoolEndAgain == {"resolves", "rejects, process ends", "rejects, reported"}

\* shutdown up to its await: closeDatabaseConnection calls pool.end()
shutdown(p, again) ==
    LET signalled == [p EXCEPT !.signals = @ + 1,
                               !.startedBefore =
                                   IF p.signals = 0
                                   THEN {i \in Invocations : inv[i].pc # "idle"}
                                   ELSE @]
    IN  IF ~p.ending THEN [signalled EXCEPT !.ending = TRUE]
        ELSE IF again = "rejects, process ends"
             THEN [signalled EXCEPT !.state = "exited", !.exitCode = 1]
             ELSE signalled

\* SIGINT or SIGTERM is delivered: the shutdown handler runs
Signal ==
    /\ proc.signals < MaxSignals
    /\ \E again \in PoolEndAgain : proc' = shutdown(proc, again)
    /\ UNCHANGED <<probe, monitoringVars, session, mutationVars, sanitizerVars,
                   config, now, limiterVars, dispatchVars>>

\* pool.end() resolves once every client is back and closed; shutdown goes on
\* to process.exit(0)
PoolEnded ==
    /\ proc.ending
    /\ checkedOut = 0
    /\ proc' = [proc EXCEPT !.ended = TRUE, !.state = "exited", !.exitCode = 0]
    /\ UNCHANGED <<probe, monitoringVars, session, mutationVars, sanitizerVars,
                   config, now, limiterVars, dispatchVars>>

(***************************************************************************)
(* Specifications                                                          *)
(***************************************************************************)
InitIdle ==
    /\ mut = MutIdle
    /\ rows = 0
    /\ live = LiveIdle
    /\ probe = ProbeIdle
    /\ proc = Running
    /\ requests = <<>>
    /\ accepted = <<>>
    /\ lastCheck = NoCheck
    /\ inv = [i \in Invocations |-> Idle]
    /\ checkedOut = 0
    /\ executed = {}
    /\ now = 0

\* the sanitizer's pure functions, applied to every bounded input
InitSanitizer ==
    /\ call \in SanitizerCalls
    /\ ret = Pending
    /\ config \in {c \in Configs : ~c.enableRateLimit /\ c.mode = "read-only"}
    /\ session = Untracked
    /\ InitIdle

NextSanitizer == SanitizeQueryCall \/ SanitizeIdentifierCall

SpecSanitizer == InitSanitizer /\ [][NextSanitizer]_vars

\* the RateLimiter object under any sequence of calls and clock advances
InitLimiter ==
    /\ call = NoCall
    /\ ret = Pending
    /\ config \in Configs
    /\ session = Untracked
    /\ InitIdle

NextLimiter == CheckLimitCall \/ ResetCall \/ GetStatsCall

SpecLimiter == InitLimiter /\ [][NextLimiter]_vars

\* the server: overlapping tool invocations against one pool
Init ==
    /\ call = NoCall
    /\ ret = Pending
    /\ config \in DispatchConfigs
    /\ session = Untracked
    /\ InitIdle

Next ==
    \E i \in Invocations :
         \/ Receive(i)
         \/ Connect(i)
         \/ ConnectFail(i)
         \/ SetDone(i)
         \/ SetFail(i)
         \/ QueryDone(i)
         \/ QueryFail(i)

Spec == Init /\ [][Next]_vars

\* the query tools under every argument case, the limiter off; the argument
\* cases pass the sanitizer in either mode
InitArguments ==
    /\ call = NoCall
    /\ ret = Pending
    /\ config \in {c \in Configs : ~c.enableRateLimit /\ c.mode = "read-only"}
    /\ session = Untracked
    /\ InitIdle

NextArguments ==
    \E i \in Invocations :
         \/ ReceiveArguments(i)
         \/ Connect(i)
         \/ ConnectFail(i)
         \/ SetDone(i)
         \/ SetFail(i)
         \/ QueryDone(i)
         \/ QueryFail(i)

SpecArguments == InitArguments /\ [][NextArguments]_vars

\* executeQuery calls with different timeouts sharing the pool's connections
InitSession ==
    /\ call = NoCall
    /\ ret = Pending
    /\ config \in {c \in Configs : ~c.enableRateLimit /\ c.mode = "read-only"}
    /\ session = [c \in Connections |-> NoSession]
    /\ InitIdle

NextSession ==
    \E i \in Invocations :
         \/ ReceiveSession(i)
         \/ Connect(i)
         \/ ConnectFail(i)
         \/ SetDone(i)
         \/ SetFail(i)
         \/ QueryDone(i)
         \/ QueryFail(i)

SpecSession == InitSession /\ [][NextSession]_vars

\* one live-monitoring tool call and its executeQuery calls on the pool
InitLive ==
    /\ call = NoCall
    /\ ret = Pending
    /\ config \in {c \in Configs : ~c.enableRateLimit /\ c.mode = "read-only"}
    /\ session = Untracked
    /\ InitIdle

NextLive ==
    \/ LiveCall
    \/ LiveConnect
    \/ LiveConnectFail
    \/ LiveQueryDone
    \/ LiveQueryFail
    \/ LiveWakeUp

SpecLive == InitLive /\ [][NextLive]_vars

\* the same under the scheduling of the event loop: the pool grants a free
\* connection to a waiting call, a running statement ends, a timer fires
FairLive ==
    /\ WF_vars(LiveConnect)
    /\ WF_vars(LiveQueryDone \/ LiveQueryFail)
    /\ WF_vars(LiveWakeUp)

SpecLiveFair == SpecLive /\ FairLive

\* testConnection probing the pool while executeQuery invocations use it
InitProbe ==
    /\ call = NoCall
    /\ ret = Pending
    /\ config \in {c \in Configs : ~c.enableRateLimit /\ c.mode = "read-only"}
    /\ session = Untracked
    /\ InitIdle

NextProbe ==
    \/ TestConnectionCall
    \/ ProbeConnect
    \/ ProbeConnectFail
    \/ ProbeQueryDone
    \/ ProbeQueryFail
    \/ \E i \in Invocations :
         \/ ReceiveSession(i)
         \/ Connect(i)
         \/ ConnectFail(i)
         \/ SetDone(i)
         \/ SetFail(i)
         \/ QueryDone(i)
         \/ QueryFail(i)

SpecProbe == InitProbe /\ [][NextProbe]_vars

\* the running server receiving invocations and termination signals; nothing
\* runs once the process has exited
InitShutdown ==
    /\ call = NoCall
    /\ ret = Pending
    /\ config \in {c \in Configs : ~c.enableRateLimit /\ c.mode = "read-only"}
    /\ session = Untracked
    /\ InitIdle

NextShutdown ==
    /\ proc.state = "running"
    /\ \/ Signal
       \/ PoolEnded
       \/ \E i \in Invocations :
            \/ ReceiveSession(i)
            \/ Connect(i)
            \/ ConnectFail(i)
            \/ SetDone(i)
            \/ SetFail(i)
            \/ QueryDone(i)
            \/ QueryFail(i)

SpecShutdown == InitShutdown /\ [][NextShutdown]_vars

\* one mutation tool call against a table other sessions also write
InitMutation ==
    /\ call = NoCall
    /\ ret = Pending
    /\ config \in {c \in Configs : ~c.enableRateLimit}
    /\ session = Untracked
    /\ InitIdle

NextMutation ==
    \/ MutationCall
    \/ CountDone
    \/ SampleDone
    \/ ModifyDone
    \/ ExecuteFail
    \/ PreviewDone
    \/ PreviewFail
    \/ OtherSession

SpecMutation == InitMutation /\ [][NextMutation]_vars

\* every tool that places a WHERE text, a condition, an ORDER BY list or an
\* interval into a statement, one call at a time
NextFragment ==
    \/ MutationCall
    \/ CountDone
    \/ SampleDone
    \/ ModifyDone
    \/ ExecuteFail
    \/ PreviewDone
    \/ PreviewFail
    \/ FragmentCall
    \/ FragmentDone
    \/ FragmentFail
    \/ OtherSession

SpecFragment == InitMutation /\ [][NextFragment]_vars

(***************************************************************************)
(* What the database does with a statement                                 *)
(***************************************************************************)
ModifyingOps ==
    {"INSERT", "UPDATE", "DELETE", "TRUNCATE", "CREATE", "ALTER", "DROP"}
DmlOps == {"INSERT", "UPDATE", "DELETE"}
ExplainOptionWords == {"ANALYZE", "VERBOSE", "BUFFERS", "FORMAT", "JSON"}

\* the word symbols of a statement, upper-cased
Words(q) == SelectSeq(UpperSeq(q), IsWordSym)

RECURSIVE FirstNonOption(_, _)
FirstNonOption(w, k) ==
    IF k > Len(w) THEN Len(w) + 1
    ELSE IF w[k] \in ExplainOptionWords THEN FirstNonOption(w, k + 1) ELSE k

\* the last symbol before index i that is no whitespace ("" when none)
RECURSIVE PrevNonSpace(_, _)
PrevNonSpace(q, i) ==
    IF i <= 1 THEN ""
    ELSE IF IsSpace(q[i - 1]) THEN PrevNonSpace(q, i - 1) ELSE q[i - 1]

\* INSERT/UPDATE/DELETE/TRUNCATE/DDL submitted directly
ModifiesDirectly(q) ==
    LET w == Words(Trim(q)) IN w # <<>> /\ w[1] \in ModifyingOps

\* EXPLAIN with the ANALYZE option runs the statement it explains
ModifiesAsExplainBody(q) ==
    LET w == Words(Trim(q))
        k == FirstNonOption(w, 2)
    IN  /\ w # <<>>
        /\ w[1] = "EXPLAIN"
        /\ k <= Len(w)
        /\ w[k] \in ModifyingOps
        /\ \E j \in 2..(k - 1) : w[j] = "ANALYZE"

\* a data-modifying statement as a WITH sub-statement or as its main statement
ModifiesInsideWith(q) ==
    LET t == Trim(q)
        w == Words(t)
    IN  /\ w # <<>>
        /\ w[1] = "WITH"
        /\ \E i \in 2..Len(t) :
               /\ ToUpperCase(t[i]) \in DmlOps
               /\ PrevNonSpace(t, i) \in {"(", ")"}

DataModifying(q) ==
    ModifiesDirectly(q) \/ ModifiesAsExplainBody(q) \/ ModifiesInsideWith(q)

(***************************************************************************)
(* Claims                                                                  *)
(***************************************************************************)
StatementsOf(i) == {s \in executed : s.by = i}
InTrace(rec, event) == \E k \in 1..Len(rec.trace) : rec.trace[k] = event

\* C1: in read-only mode no data-modifying statement (INSERT, UPDATE, DELETE,
\* TRUNCATE or DDL, submitted directly, as the body of an EXPLAIN or inside a
\* WITH clause) is ever sent to the database by executeQuery.
C1_ReadOnlyNeverModifies ==
    config.mode = "read-only" =>
        \A s \in executed : s.kind = "query" => ~DataModifying(s.text)

\* C2: sanitizeQuery fails whenever the first whitespace-delimited token of
\* the trimmed query, upper-cased, is not in the allow-list of the mode;
\* 'DELETE FROM t' fails in read-only mode and succeeds in read-write mode.
C2ReadOnly == {"SELECT", "EXPLAIN", "WITH"}
C2ReadWrite ==
    C2ReadOnly \cup {"INSERT", "UPDATE", "DELETE", "CREATE", "ALTER", "DROP",
                     "TRUNCATE", "VACUUM", "ANALYZE", "REINDEX"}
C2Listed(text, mode) ==
    LET token == UpperSeq(FirstToken(Trim(text)))
    IN  /\ Len(token) = 1
        /\ token[1] \in (IF mode = "read-only" THEN C2ReadOnly ELSE C2ReadWrite)

C2_DisallowedKeywordFails ==
    (call.fn = "sanitizeQuery" /\ ret.status # "pending") =>
        /\ ~C2Listed(call.text, call.mode) => ret.status = "error"
        /\ (call.text = DeleteFromT /\ call.mode = "read-only") =>
               (ret.status = "error" /\ ret.error = ErrOperation)
        /\ (call.text = DeleteFromT /\ call.mode = "read-write") =>
               ret.status = "ok"

C2_Witness ==
    /\ call.fn = "sanitizeQuery"
    /\ call.text = DeleteFromT
    /\ call.mode = "read-only"
    /\ ret.status = "error"
    /\ ret.error = ErrOperation

\* C3: when sanitizeQuery rejects the query, executeQuery raises without
\* acquiring a pool connection and without sending any statement.
C3_FailsClosed ==
    \A i \in Invocations :
        (inv[i].handlerRuns > 0 /\ inv[i].verdict # Ok) =>
            /\ inv[i].pc = "done"
            /\ Len(inv[i].responses) = 1
            /\ inv[i].responses[1].isError
            /\ inv[i].responses[1].text.error = inv[i].verdict
            /\ ~inv[i].client
            /\ ~InTrace(inv[i], "connect")
            /\ StatementsOf(i) = {}

C3_Witness ==
    \E i \in Invocations :
        /\ inv[i].handlerRuns > 0
        /\ inv[i].query = Select1Select2
        /\ inv[i].verdict = ErrMultiple
        /\ inv[i].pc = "done"
        /\ inv[i].responses[1].text.error = ErrMultiple
        /\ executed # {}

\* C4: for a query that passes the keyword check, sanitizeQuery fails if a
\* semicolon stands anywhere but at the last position of the trimmed query,
\* and does not raise the multiple-statements error when the only semicolon
\* is the last character or there is none.
C4SemicolonsAt(t) == {i \in 1..Len(t) : t[i] = ";"}

C4_SemicolonOnlyLast ==
    (call.fn = "sanitizeQuery" /\ ret.status # "pending"
       /\ C2Listed(call.text, call.mode)) =>
        LET t == Trim(call.text)
        IN  /\ (\E i \in C4SemicolonsAt(t) : i # Len(t)) => ret.status = "error"
            /\ C4SemicolonsAt(t) \subseteq {Len(t)} => ret.error # ErrMultiple
            /\ call.text = Select1Select2 => ret.error = ErrMultiple
            /\ call.text \in {Select1Semi, Select1} => ret.status = "ok"

C4_Witness ==
    /\ call.fn = "sanitizeQuery"
    /\ call.text = <<"SELECT", " ", ";", ";">>
    /\ ret.status = "error"
    /\ ret.error = ErrMultiple

\* C5: sanitizeIdentifier returns its argument unchanged when it is a letter
\* or underscore followed only by letters, digits and underscores, and fails
\* for every other string (empty, leading digit, space, semicolon, quote).
C5WordChars == {"a", "Z", "7", "_"}
C5WellFormed(id) ==
    /\ id # <<>>
    /\ \A i \in 1..Len(id) : id[i] \in C5WordChars
    /\ id[1] # "7"

C5_IdentifierWhitelist ==
    (call.fn = "sanitizeIdentifier" /\ ret.status # "pending") =>
        IF C5WellFormed(call.text)
        THEN ret.status = "ok" /\ ret.value = call.text
        ELSE ret.status = "error"

C5_Witness ==
    /\ call.fn = "sanitizeIdentifier"
    /\ call.text = <<"a", ";", "Z">>
    /\ ret.status = "error"

\* C6: with the limiter enabled, maxRequests = N and window W, the accepted
\* calls whose timestamps lie in one window (t - W, t] never number more than
\* N, and a call is rejected exactly when N accepted calls already lie in the
\* window that ends at it.
InWindow(acc, t, windowMs) ==
    Cardinality({j \in 1..Len(acc) : acc[j] > t - windowMs /\ acc[j] <= t})

C7_Recovery ==
    (/\ lastCheck.op = "checkLimit"
     /\ lastCheck.owedBefore.kind = "number"
     /\ lastCheck.at >= lastCheck.owedBefore.n + config.rateLimitWindowMs) =>
        ~lastCheck.threw

C7_Witness ==
    /\ lastCheck.op = "checkLimit"
    /\ lastCheck.owedBefore.kind = "number"
    /\ lastCheck.at >= lastCheck.owedBefore.n + config.rateLimitWindowMs
    /\ ~lastCheck.threw
    /\ Len(requests) = 1

\* C8: every rejected checkLimit call, for every configured maxRequests and
\* window, reports a retry-after that is a positive whole number of seconds,
\* ceil((oldest recorded timestamp + window - now) / 1000).
C8_RetryAfterPositive ==
    (lastCheck.op = "checkLimit" /\ lastCheck.threw) =>
        /\ lastCheck.resetIn.kind = "number"
        /\ lastCheck.resetIn.n >= 1
        /\ lastCheck.oldest.kind = "number"
        /\ 1000 * lastCheck.resetIn.n >=
               lastCheck.oldest.n + config.rateLimitWindowMs - lastCheck.at
        /\ 1000 * (lastCheck.resetIn.n - 1) <
               lastCheck.oldest.n + config.rateLimitWindowMs - lastCheck.at

\* C9: the call-tool handler answers every invocation with exactly one
\* envelope and lets no exception escape; a success carries the handler's
\* result, a failure carries isError, the error message and the tool name.
C9Failed(rec) ==
    \/ rec.rateThrew
    \/ ~getTool(rec.name)
    \/ ~SchemaParse(rec.name, rec.rawArgs).success
    \/ InTrace(rec, "error:tool")

C9_OneEnvelope ==
    \A i \in Invocations :
        /\ ~inv[i].escaped
        /\ inv[i].pc # "done" => inv[i].responses = <<>>
        /\ inv[i].pc = "done" =>
               /\ Len(inv[i].responses) = 1
               /\ inv[i].responses[1].isError <=> C9Failed(inv[i])
               /\ IF inv[i].responses[1].isError
                  THEN /\ inv[i].responses[1].text.tool = inv[i].name
                       /\ inv[i].responses[1].text.error # ""
                  ELSE inv[i].responses[1].text.result \in 0..MaxRows

C9_Witness ==
    /\ \E i \in Invocations :
           /\ inv[i].pc = "done"
           /\ inv[i].responses[1].isError
           /\ inv[i].responses[1].text.error = ErrDatabase
    /\ \E i \in Invocations :
           /\ inv[i].pc = "done"
           /\ ~inv[i].responses[1].isError

\* C10: per invocation the handler runs at most once, and only when the name
\* resolved, the arguments passed the schema and the limiter accepted; an
\* invocation failing one of the three ends failed with no handler run, no
\* connection and no statement; a failed handler is not run again.
C10Gate(rec) ==
    /\ getTool(rec.name)
    /\ SchemaParse(rec.name, rec.rawArgs).success
    /\ ~rec.rateThrew

C10_HandlerGated ==
    \A i \in Invocations :
        /\ inv[i].handlerRuns <= 1
        /\ inv[i].handlerRuns = 1 => C10Gate(inv[i])
        /\ (inv[i].pc # "idle" /\ ~C10Gate(inv[i])) =>
               /\ inv[i].pc = "done"
               /\ Len(inv[i].responses) = 1
               /\ inv[i].responses[1].isError
               /\ inv[i].handlerRuns = 0
               /\ ~InTrace(inv[i], "handler")
               /\ ~InTrace(inv[i], "connect")
               /\ StatementsOf(i) = {}
        /\ InTrace(inv[i], "error:tool") =>
               inv[i].pc = "done" /\ inv[i].handlerRuns = 1

C10_Witness ==
    /\ \E i \in Invocations :
           /\ inv[i].pc = "done"
           /\ inv[i].rateThrew
           /\ inv[i].handlerRuns = 0
    /\ \E i \in Invocations :
           /\ inv[i].pc = "done"
           /\ inv[i].handlerRuns = 1
           /\ InTrace(inv[i], "error:tool")
           /\ StatementsOf(i) # {}

\* C11 (as stated): the limiter is consulted after the lookup and the
\* validation, so an invocation naming an unknown tool or carrying invalid
\* arguments fails with the lookup or validation error and records no
\* timestamp: the accepted calls are exactly the valid invocations.
C11Valid(rec) == getTool(rec.name) /\ SchemaParse(rec.name, rec.rawArgs).success

C11_ValidatedBeforeRateCheck ==
    config.enableRateLimit =>
        /\ \A i \in Invocations :
               (inv[i].pc # "idle" /\ ~C11Valid(inv[i])) =>
                   inv[i].responses[1].text.error \in {ErrNotFound, ErrValidation}
        /\ Len(accepted) =
               Cardinality({i \in Invocations :
                   inv[i].pc # "idle" /\ C11Valid(inv[i]) /\ ~inv[i].rateThrew})

\* C11 (amended): the limiter is consulted first, before the lookup and the
\* validation; every invocation the limiter accepts records its timestamp,
\* valid or not, and an invocation the limiter rejects fails with the rate
\* limit error whatever its name and arguments.
C11_RateCheckedFirst ==
    /\ \A i \in Invocations :
           /\ inv[i].pc # "idle" =>
                  /\ Len(inv[i].trace) >= 2
                  /\ inv[i].trace[1] = "info:mcp"
                  /\ inv[i].trace[2] = "checkLimit"
           /\ inv[i].rateThrew =>
                  /\ inv[i].pc = "done"
                  /\ inv[i].handlerRuns = 0
                  /\ inv[i].responses[1].text.error = ErrRateLimit
    /\ (config.enableRateLimit /\ lastCheck.op = "checkLimit"
          /\ ~lastCheck.threw) =>
           /\ requests # <<>>
           /\ requests[Len(requests)] = lastCheck.at
    /\ config.enableRateLimit =>
           Len(accepted) =
               Cardinality({i \in Invocations :
                   inv[i].pc # "idle" /\ ~inv[i].rateThrew})

C11_Witness ==
    /\ config.enableRateLimit
    /\ inv[1].name = "noSuchTool"
    /\ inv[1].pc = "done"
    /\ ~inv[1].rateThrew
    /\ inv[1].responses[1].text.error = ErrNotFound
    /\ requests # <<>>
    /\ inv[2].name = "executeQuery"
    /\ inv[2].rawArgs.query = Str(Select1)
    /\ inv[2].rateThrew
    /\ inv[2].responses[1].text.error = ErrRateLimit

\* C12 (as stated): validation fails the invocation before the handler runs
\* whenever the raw arguments hold an undeclared key, a value of the wrong
\* type, or lack a required key.
C12Mistyped(name, raw) ==
    \/ raw.query.kind \notin {"string", "undefined"}
    \/ /\ name = "executeQuery"
       /\ \/ raw.timeout.kind \notin {"number", "undefined"}
          \/ raw.maxRows.kind \notin {"number", "undefined"}
    \/ /\ name = "explainQuery"
       /\ raw.analyze.kind \notin {"boolean", "undefined"}

C12MissingRequired(raw) == raw.query.kind = "undefined"

C12Undeclared(raw) == raw.extra

C12FailedValidation(rec) ==
    /\ rec.pc = "done"
    /\ rec.handlerRuns = 0
    /\ ~InTrace(rec, "handler")
    /\ Len(rec.responses) = 1
    /\ rec.responses[1].isError
    /\ rec.responses[1].text.error = ErrValidation

C12_RejectsUndeclaredKeys ==
    \A i \in Invocations :
        (/\ inv[i].pc # "idle"
         /\ \/ C12Undeclared(inv[i].rawArgs)
            \/ C12Mistyped(inv[i].name, inv[i].rawArgs)
            \/ C12MissingRequired(inv[i].rawArgs)) =>
            C12FailedValidation(inv[i])

\* C12 (amended): validation fails the invocation before the handler runs
\* whenever a declared key holds a value of the wrong type or a required key
\* is missing; an undeclared key is dropped, not rejected; when validation
\* succeeds the handler receives the declared keys of the raw object with
\* every declared default filled in.
C12_ValidationStripsUndeclared ==
    \A i \in Invocations :
        inv[i].pc # "idle" =>
            IF \/ C12Mistyped(inv[i].name, inv[i].rawArgs)
               \/ C12MissingRequired(inv[i].rawArgs)
            THEN /\ C12FailedValidation(inv[i])
                 /\ StatementsOf(i) = {}
            ELSE /\ inv[i].handlerRuns = 1
                 /\ ~inv[i].args.extra
                 /\ inv[i].args.query = inv[i].rawArgs.query
                 /\ inv[i].name = "executeQuery" =>
                        /\ inv[i].args.timeout = inv[i].rawArgs.timeout
                        /\ inv[i].args.maxRows = inv[i].rawArgs.maxRows
                 /\ inv[i].name = "explainQuery" =>
                        inv[i].args.analyze =
                            IF inv[i].rawArgs.analyze.kind = "undefined"
                            THEN Bool(TRUE) ELSE inv[i].rawArgs.analyze

C12_Witness ==
    /\ \E i \in Invocations :
           /\ inv[i].name = "executeQuery"
           /\ inv[i].rawArgs.extra
           /\ inv[i].handlerRuns = 1
           /\ ~inv[i].args.extra
           /\ inv[i].pc = "done"
           /\ ~inv[i].responses[1].isError
    /\ \E i \in Invocations :
           /\ inv[i].rawArgs.maxRows.kind = "string"
           /\ C12FailedValidation(inv[i])

\* C13: an executeQuery call whose statement yields R rows returns, with
\* effective cap C (options.maxRows when supplied, config.maxResultRows
\* otherwise), exactly C rows and a logged warning when C < R, and all R
\* rows when C >= R.
C13Cap(rec) ==
    IF rec.rawArgs.maxRows.kind = "number" THEN rec.rawArgs.maxRows.n
    ELSE config.maxResultRows

C13_RowCap ==
    \A i \in Invocations :
        (/\ inv[i].name = "executeQuery"
         /\ inv[i].pc = "done"
         /\ ~inv[i].responses[1].isError) =>
            /\ inv[i].responses[1].text.result =
                   IF C13Cap(inv[i]) < inv[i].rowCount
                   THEN C13Cap(inv[i]) ELSE inv[i].rowCount
            /\ InTrace(inv[i], "warn:query") <=>
                   C13Cap(inv[i]) < inv[i].rowCount

\* C14: every executeQuery call, returning or raising, leaves as many
\* connections checked out of the pool as it found: the connections checked
\* out are exactly those of the calls still between pool.connect() and their
\* return, and none once every call has ended.
C14Holding == {i \in Invocations : inv[i].pc \in {"setting", "querying"}}

C14_NoLeak ==
    /\ checkedOut = Cardinality(C14Holding)
    /\ checkedOut <= PoolMax
    /\ \A i \in Invocations : inv[i].pc \in {"idle", "done"} => ~inv[i].client
    /\ \A i \in Invocations :
           (inv[i].pc = "done" /\ InTrace(inv[i], "connect")) =>
               InTrace(inv[i], "release")

C14_Witness ==
    /\ checkedOut = 0
    /\ \E i \in Invocations :
           /\ inv[i].pc = "done"
           /\ inv[i].responses[1].text.error = ErrTimeout
           /\ InTrace(inv[i], "connect")
    /\ \E i \in Invocations :
           /\ inv[i].pc = "done"
           /\ inv[i].responses[1].text.error = ErrDatabase
           /\ InTrace(inv[i], "SET")

\* C15: the statement timeout of an executeQuery call is options.timeout
\* whenever that option is supplied (0 included) and config.queryTimeout only
\* when it is absent; when the effective value is not a finite non-negative
\* number the call fails and the user's statement is never sent.
C15Effective(rec) ==
    IF rec.rawArgs.timeout.kind = "undefined" THEN Num(config.queryTimeout)
    ELSE rec.rawArgs.timeout

C15Usable(timeout) == timeout.kind = "number" /\ timeout.n >= 0

C15_EffectiveTimeout ==
    \A i \in Invocations :
        (inv[i].name = "executeQuery" /\ inv[i].handlerRuns = 1) =>
            IF C15Usable(C15Effective(inv[i]))
            THEN \A s \in StatementsOf(i) :
                     s.kind = "SET statement_timeout" =>
                         s.timeout = C15Effective(inv[i]).n
            ELSE /\ \A s \in StatementsOf(i) : s.kind # "query"
                 /\ inv[i].pc = "done" => inv[i].responses[1].isError

\* C17: in read-only mode the EXPLAIN statement the explainQuery tool sends
\* never carries the ANALYZE option, whatever analyze the caller passed or
\* left to its default.
C17OptionList(text) ==
    SubSeq(text, 1, CHOOSE k \in 0..Len(text) :
                        /\ k = 0 \/ text[k] = ")"
                        /\ \A j \in 1..(k - 1) : text[j] # ")"
                        /\ k = 0 => \A j \in 1..Len(text) : text[j] # ")")

C17HasAnalyze(text) ==
    \E k \in 1..Len(C17OptionList(text)) : C17OptionList(text)[k] = "ANALYZE"

C17_AnalyzeForcedOff ==
    config.mode = "read-only" =>
        \A s \in executed :
            (s.kind = "query" /\ inv[s.by].name = "explainQuery") =>
                ~C17HasAnalyze(s.text)

\* C16 (as stated): safeDelete and safeUpdate called with a WHERE text that,
\* trimmed and lower-cased, is '1=1' or 'true', and without
\* allowEmptyWhere = true, return blocked: true and send no DELETE or UPDATE.
C16Lowered(where) ==
    LET t == Trim(where)
    IN  [k \in 1..Len(t) |->
            IF t[k] \in {"TRUE", "True", "true"} THEN "true" ELSE t[k]]

C16Case ==
    /\ mut.pc # "idle"
    /\ mut.tool \in {"safeDelete", "safeUpdate"}
    /\ C16Lowered(mut.raw.where.text) \in {<<"1", "=", "1">>, <<"true">>}
    /\ mut.raw.allowEmptyWhere # Bool(TRUE)

C16Modifies(text) ==
    LET w == Words(Trim(text)) IN w # <<>> /\ w[1] \in {"DELETE", "UPDATE"}

C16NothingSent ==
    /\ mut.pc = "done"
    /\ mut.rowsAffected = 0
    /\ \A s \in executed : s.kind = "query" => ~C16Modifies(s.text)

C16_AlwaysBlocked ==
    C16Case => (mut.response.kind = "blocked" /\ C16NothingSent)

\* C16 (amended): such a call sends no DELETE or UPDATE; it returns
\* blocked: true when its schema and table are valid identifiers and fails
\* with the identifier error when one of them is not.
C16_BlockedOrInvalidIdentifier ==
    C16Case =>
        /\ C16NothingSent
        /\ executed = {}
        /\ IF /\ sanitizeIdentifier(mut.args.schema.text).status = "ok"
              /\ sanitizeIdentifier(mut.args.table.text).status = "ok"
           THEN mut.response.kind = "blocked"
           ELSE /\ mut.response.kind = "error"
                /\ mut.response.error = ErrIdentifier

C16_Witness ==
    /\ C16Case
    /\ config.mode = "read-write"
    /\ mut.tool = "safeDelete"
    /\ mut.raw.where.text = <<" ", "TRUE", " ">>
    /\ mut.raw.table.text = <<"t">>
    /\ mut.response.kind = "blocked"
    /\ rows > 0

\* C18: a safeUpdate call whose set argument is a string and that does not
\* carry allowRawSet = true never sends an UPDATE containing that string.
C18Contains(text, part) ==
    \E k \in 1..(Len(text) - Len(part) + 1) :
        SubSeq(text, k, k + Len(part) - 1) = part

C18_RawSetOptIn ==
    (/\ mut.tool = "safeUpdate"
     /\ mut.raw.set.kind = "string"
     /\ mut.raw.allowRawSet # Bool(TRUE)) =>
        \A s \in executed :
            (s.kind = "query" /\ C16Modifies(s.text)) =>
                ~C18Contains(s.text, mut.raw.set.text)

\* C19: previewUpdate, previewDelete and safeUpdate / safeDelete called with
\* dryRun = true send only SELECT statements, whatever their arguments and
\* the mode, and modify no row.
C19Case ==
    \/ mut.tool \in {"previewUpdate", "previewDelete"}
    \/ /\ mut.tool \in {"safeUpdate", "safeDelete"}
       /\ mut.raw.dryRun = Bool(TRUE)

C19IsSelect(text) ==
    LET w == Words(Trim(text)) IN w # <<>> /\ w[1] = "SELECT"

C19_OnlySelects ==
    C19Case =>
        /\ \A s \in executed :
               s.kind = "query" =>
                   (C19IsSelect(s.text) /\ ~DataModifying(s.text))
        /\ mut.rowsAffected = 0
        /\ mut.pc # "modifying"
        /\ mut.response.kind # "success"

C19_Witness ==
    /\ config.mode = "read-write"
    /\ mut.tool = "safeDelete"
    /\ mut.raw.dryRun = Bool(TRUE)
    /\ mut.raw.where.text = <<"id", "=", "7">>
    /\ mut.response.kind = "dryRun"
    /\ mut.count > 0
    /\ Cardinality({s \in executed : s.kind = "query"}) = 2

\* C20: a safeDelete or safeUpdate call that is neither a dry run nor
\* blocked never deletes or updates more than maxRows rows, whatever other
\* sessions do to the matching rows between its count and its statement.
C20_MaxRowsBound ==
    (/\ mut.tool \in {"safeUpdate", "safeDelete"}
     /\ mut.response.kind = "success") =>
        mut.rowsAffected <= mut.args.maxRows.n

\* C30: every invocation first issues the 'Tool called' entry; one that ends
\* failed (unknown tool, invalid arguments, rate limit, handler or database
\* error) issues the handler's error entry, carrying the message of its
\* envelope, as the last thing before the envelope; one that ends succeeded
\* issues the 'completed successfully' entry as the last thing before its
\* result.
C30Entries(rec, entry) ==
    Cardinality({k \in 1..Len(rec.trace) : rec.trace[k] = entry})

C30_UniformLogging ==
    \A i \in Invocations :
        /\ inv[i].pc # "idle" => inv[i].trace[1] = "info:mcp"
        /\ inv[i].pc = "done" =>
               IF inv[i].responses[1].isError
               THEN /\ inv[i].trace[Len(inv[i].trace)] = "error:mcp"
                    /\ C30Entries(inv[i], "error:mcp") = 1
                    /\ inv[i].logged = inv[i].responses[1].text.error
               ELSE /\ inv[i].trace[Len(inv[i].trace)] = "info:tool"
                    /\ C30Entries(inv[i], "info:tool") = 2
                    /\ C30Entries(inv[i], "error:mcp") = 0

C30_Witness ==
    /\ \E i \in Invocations :
           /\ inv[i].pc = "done"
           /\ ~inv[i].responses[1].isError
    /\ \E i \in Invocations :
           /\ inv[i].pc = "done"
           /\ inv[i].responses[1].text.error \in {ErrNotFound, ErrValidation}
           /\ inv[i].logged = inv[i].responses[1].text.error

\* C24: a checkLimit call accepted by an enabled limiter leaves the unexpired
\* timestamps followed by exactly one new one, the current time; a rejected
\* call adds none; on a disabled limiter checkLimit never fails and leaves the
\* list as it was; getStats leaves the list as it was; reset leaves it empty.
C24Unexpired(reqs, t) ==
    SelectSeq(reqs, LAMBDA timestamp : timestamp > t - config.rateLimitWindowMs)

C24_FrameEffects ==
    /\ lastCheck.op = "checkLimit" =>
           IF ~config.enableRateLimit
           THEN ~lastCheck.threw /\ requests = lastCheck.before
           ELSE IF lastCheck.threw
           THEN requests = C24Unexpired(lastCheck.before, lastCheck.at)
           ELSE requests =
                    Append(C24Unexpired(lastCheck.before, lastCheck.at),
                           lastCheck.at)
    /\ lastCheck.op = "getStats" => requests = lastCheck.before
    /\ lastCheck.op = "reset" => requests = <<>>
    /\ ~config.enableRateLimit => requests = <<>>

C24_Witness ==
    /\ config.enableRateLimit
    /\ lastCheck.op = "checkLimit"
    /\ lastCheck.threw
    /\ Len(lastCheck.before) = 2
    /\ requests = lastCheck.before
    /\ lastCheck.at > lastCheck.before[2]

\* C23: with invocations overlapping in any order, the checks of the limiter
\* act one after the other: an accepted check appended to a list it had seen
\* below the quota, every invocation the limiter let through recorded one
\* timestamp, and the accepted timestamps of one window never exceed the
\* quota.
C23InFlight == {i \in Invocations : inv[i].pc \notin {"idle", "done"}}

C23_ChecksSerialized ==
    config.enableRateLimit =>
        /\ \A k \in 1..Len(accepted) :
               InWindow(accepted, accepted[k], config.rateLimitWindowMs)
                   <= config.rateLimitMaxRequests
        /\ Len(accepted) =
               Cardinality({i \in Invocations :
                               inv[i].pc # "idle" /\ ~inv[i].rateThrew})
        /\ (lastCheck.op = "checkLimit" /\ ~lastCheck.threw) =>
               /\ Len(requests) <= config.rateLimitMaxRequests
               /\ requests[Len(requests)] = lastCheck.at
               /\ Len(lastCheck.before) >= Len(requests) =>
                      lastCheck.before[1] + config.rateLimitWindowMs <= lastCheck.at

C23_Witness ==
    /\ config.enableRateLimit
    /\ \E i \in C23InFlight : \E j \in Invocations :
           /\ j # i
           /\ inv[j].rateThrew
           /\ inv[i].client
    /\ Len(accepted) = 1

\* C25: every statement of an executeQuery call runs on the connection the
\* call checked out, under the statement_timeout the call itself set there
\* (its effective timeout), whatever an earlier call left on that connection;
\* a call whose SET failed sends no statement.
C25_OwnTimeout ==
    /\ \A s \in executed :
           s.kind = "query" =>
               /\ s.timeout = inv[s.by].timeout.n
               /\ SetStatement(s.by, s.timeout) \in executed
    /\ \A i \in Invocations :
           /\ inv[i].pc \in {"setting", "querying"} =>
                  \E c \in Connections : session[c].holder = i
           /\ inv[i].pc = "querying" =>
                  session[ClientOf(i)].timeout = Num(inv[i].timeout.n)
           /\ (InTrace(inv[i], "SET") /\ ~InTrace(inv[i], "query")) =>
                  \A s \in StatementsOf(i) : s.kind # "query"

C25_Witness ==
    /\ \E s1, s2 \in executed :
           /\ s1.kind = "query"
           /\ s2.kind = "query"
           /\ s1.timeout = 7
           /\ s2.timeout = DefaultQueryTimeout
           /\ inv[s2.by].pc = "querying"
           /\ session[ClientOf(s2.by)].timeout = Num(DefaultQueryTimeout)
    /\ PoolMax = 1 => checkedOut = 1

\* C22: every invocation of a live-monitoring tool with schema-valid
\* arguments eventually returns a response, and a getLiveMetrics call that
\* returns a result took floor(duration / interval) samples.
C22Running == live.pc \in {"sampling", "sleeping"}

C22_AlwaysResponds ==
    /\ C22Running ~> (live.pc = "done")
    /\ [](( /\ live.tool = "getLiveMetrics"
            /\ live.pc = "done"
            /\ live.response.kind = "ok") =>
               live.iterations = Num(live.samples))

\* C26: while a live-monitoring handler sleeps between two polls none of its
\* executeQuery calls holds or awaits a connection: the calls of the poll
\* before the sleep have all released theirs.
C26_NoConnectionWhileSleeping ==
    live.pc = "sleeping" =>
        /\ live.holding = 0
        /\ live.waiting = 0
        /\ checkedOut = 0

C26_Witness ==
    /\ live.pc = "sleeping"
    /\ live.tool = "getLiveMetrics"
    /\ live.samples = 2
    /\ live.resolved = SnapshotQueries

\* C27 (as stated): with the pool saturated by overlapping executeQuery
\* calls, every waiting pool.connect() is eventually granted.
C27_EveryAcquireGranted ==
    /\ [](live.timedOut = 0)
    /\ (live.waiting > 0) ~> (live.waiting = 0)

\* C27 (amended): a call holds at most one connection and the pool never
\* hands out more than its maximum; provided each running statement ends,
\* every waiting pool.connect() is eventually granted or rejected by the
\* pool's connection timeout, every held connection is eventually released,
\* and the calls never block one another for good.
C27_PoolProgress ==
    /\ [](/\ checkedOut = live.holding
          /\ checkedOut <= PoolMax)
    /\ (live.waiting > 0) ~> (live.waiting = 0)
    /\ (live.holding > 0) ~> (live.holding = 0)
    /\ (C22Running /\ live.iterations.kind = "number") ~> (live.pc = "done")

C27_Witness ==
    /\ live.waiting > 0
    /\ live.holding = PoolMax
    /\ live.resolved > 0
    /\ live.timedOut = 0

\* C28: testConnection never raises, returns true exactly when it acquired a
\* connection and the probe statement succeeded, and has released the
\* connection it checked out when it returns, also when the probe statement
\* failed.
C28_ProbeReleases ==
    probe.pc = "done" =>
        /\ ~probe.raised
        /\ probe.returned \in {"true", "false"}
        /\ probe.returned = "true" <=> (probe.acquired /\ probe.succeeded)
        /\ ~probe.client

\* C21: once a termination signal was delivered no further invocation is
\* started, and the process exits only with the pool closed and with code 0,
\* also when a second signal arrives during the shutdown or invocations are
\* in flight.
C21_OrderlyShutdown ==
    /\ proc.signals > 0 =>
           \A i \in Invocations : inv[i].pc # "idle" => i \in proc.startedBefore
    /\ proc.state = "exited" => proc.ended /\ proc.exitCode = 0


\* a fragment the tool of call m places into its statement text is rejected
\* by the validator written for that kind of fragment
C29Rejected(m) ==
    LET a == m.args
    IN  \/ /\ m.tool \in MutationTools
           /\ validateUserWhereClause(a.where.text) # Ok
        \/ /\ m.tool \in {"findRecent", "exportTable", "generateInsertStatements"}
           /\ Truthy(a.where)
           /\ validateUserWhereClause(a.where.text) # Ok
        \/ /\ m.tool = "checkConstraintViolations"
           /\ validateCondition(a.condition.text) # Ok
        \/ /\ m.tool = "findRecent"
           /\ \/ validateInterval(a.timeWindow.text) # Ok
              \/ Truthy(a.orderBy) /\ validateOrderBy(a.orderBy.text) # Ok

\* C29: in every tool that places a user-supplied WHERE text, condition,
\* ORDER BY list or interval into a statement, the validator of the fragment
\* runs before the first statement: a call whose fragment the validator
\* rejects has failed, with no statement of it executed or in flight
C29_ValidatedBeforeFirstStatement ==
    (mut.pc # "idle" /\ C29Rejected(mut)) =>
        /\ mut.pc = "done"
        /\ mut.response.kind = "error"
        /\ mut.pending = {}
        /\ executed = {}

\* findRecent with a valid interval and a WHERE text holding `; drop` has
\* failed on the WHERE validator with nothing executed
C29_Witness ==
    /\ mut.tool = "findRecent"
    /\ validateInterval(mut.args.timeWindow.text) = Ok
    /\ Truthy(mut.args.where)
    /\ MatchesSemicolonWord(mut.args.where.text)
    /\ mut.response = [kind |-> "error", error |-> ErrWhereDangerous]
    /\ executed = {}

====
